---- MODULE Spec2Model ----
(***************************************************************************)
(* A model of the three price crawlers of projects/price_crawler:          *)
(*   APIPriceCrawler      (your_crawler_script.py),                        *)
(*   AutoPriceCrawler     (your_crawler_script_v1.py),                     *)
(*   EnhancedPriceCrawler (your_crawler_script_v2.py).                     *)
(*                                                                         *)
(* A text is a sequence of characters, each character a string.  A price   *)
(* is a record [w, c]: w whole units and c hundredths, which is exact for  *)
(* every number the patterns can capture (digits with zero or two          *)
(* decimals).  Python's None is the record [none |-> TRUE].                *)
(***************************************************************************)
EXTENDS Integers, Sequences, FiniteSets, TLC

VARIABLES
  text, tout,                       \* the parsers on their own
  page, pout,                       \* the page crawlers on their own
  price_results, comparison,        \* compare_prices on its own
  api_keys, price_history,          \* the fields of the crawler object
  pc, items, idx, results, log,     \* a run of search_multiple_items
  variant, max_results,             \* the crawler class and its max_results
  stage, kidx, urls, uidx,          \* a run of search_and_crawl: where it is,
  found_prices,                     \* its URLs and what it has found
  written                           \* what the last export or report produced

tvars == <<text, tout>>

dvars == <<page, pout>>

mvars == <<price_results, comparison>>

\* The variables of the functions on their own.
fvars == <<tvars, dvars, mvars>>

ovars == <<api_keys, price_history>>

bvars == <<pc, items, idx, results, log>>

cvars == <<variant, max_results, stage, kidx, urls, uidx, found_prices>>

xvars == <<written>>

vars ==
  <<text, tout, page, pout, price_results, comparison, api_keys, price_history, pc, items, idx, results, log,
    variant, max_results, stage, kidx, urls, uidx, found_prices, written>>

None == [none |-> TRUE]

(***************************************************************************)
(* Characters.                                                             *)
(***************************************************************************)
Pound == "pound-sign"
Euro == "euro-sign"
Yen == "yen-sign"

CurrencySymbols == {"$", Pound, Euro, Yen}

Digits == {"0", "1", "2", "3", "4", "5", "6", "7", "8", "9"}

IsDigit(c) == c \in Digits

DigitVal(c) ==
  CASE c = "0" -> 0 [] c = "1" -> 1 [] c = "2" -> 2 [] c = "3" -> 3
    [] c = "4" -> 4 [] c = "5" -> 5 [] c = "6" -> 6 [] c = "7" -> 7
    [] c = "8" -> 8 [] c = "9" -> 9

\* \s of the re module, on the characters the texts use.
IsSpace(c) == c \in {" ", "\t", "\n"}

LowerPairs ==
  { <<"A", "a">>, <<"B", "b">>, <<"C", "c">>, <<"D", "d">>, <<"E", "e">>,
    <<"F", "f">>, <<"G", "g">>, <<"H", "h">>, <<"I", "i">>, <<"J", "j">>,
    <<"K", "k">>, <<"L", "l">>, <<"M", "m">>, <<"N", "n">>, <<"O", "o">>,
    <<"P", "p">>, <<"Q", "q">>, <<"R", "r">>, <<"S", "s">>, <<"T", "t">>,
    <<"U", "u">>, <<"V", "v">>, <<"W", "w">>, <<"X", "x">>, <<"Y", "y">>,
    <<"Z", "z">> }

LowerOf == [c \in { p[1] : p \in LowerPairs } |-> (CHOOSE p \in LowerPairs : p[1] = c)[2]]

UpperOf == [c \in { p[2] : p \in LowerPairs } |-> (CHOOSE p \in LowerPairs : p[2] = c)[1]]

\* str.lower() and str.upper(), character by character.
LowerChar(c) == IF c \in DOMAIN LowerOf THEN LowerOf[c] ELSE c

UpperChar(c) == IF c \in DOMAIN UpperOf THEN UpperOf[c] ELSE c

Lower(s) == [i \in 1..Len(s) |-> LowerChar(s[i])]

Upper(s) == [i \in 1..Len(s) |-> UpperChar(s[i])]

\* str.replace(ch, ''): every occurrence of the character removed.
RemoveChar(s, ch) == SelectSeq(s, LAMBDA x : x # ch)

\* The character at position i, or a character no class holds past the end.
At(s, i) == IF i >= 1 /\ i <= Len(s) THEN s[i] ELSE "EOT"

\* needle occurs in hay at position i.
OccursAt(hay, needle, i) ==
  /\ i >= 1
  /\ i + Len(needle) - 1 <= Len(hay)
  /\ SubSeq(hay, i, i + Len(needle) - 1) = needle

\* Python's `needle in hay` on strings.
Contains(hay, needle) == \E i \in 1..(Len(hay) + 1) : OccursAt(hay, needle, i)

SetMin(S) == CHOOSE x \in S : \A y \in S : x <= y

\* str.strip()
RECURSIVE LStrip(_)
LStrip(s) == IF s # <<>> /\ IsSpace(s[1]) THEN LStrip(Tail(s)) ELSE s

RECURSIVE RStrip(_)
RStrip(s) ==
  IF s # <<>> /\ IsSpace(s[Len(s)]) THEN RStrip(SubSeq(s, 1, Len(s) - 1)) ELSE s

Strip(s) == RStrip(LStrip(s))

(***************************************************************************)
(* Pieces of the regular expressions.  Each gives the position after the   *)
(* piece when it is matched greedily from position i.                      *)
(***************************************************************************)
\* \d* from i: the position after the maximal run of digits.
RECURSIVE DigitRunEnd(_, _)
DigitRunEnd(s, i) == IF IsDigit(At(s, i)) THEN DigitRunEnd(s, i + 1) ELSE i

\* \s* from i.
RECURSIVE SpaceEnd(_, _)
SpaceEnd(s, i) == IF IsSpace(At(s, i)) THEN SpaceEnd(s, i + 1) ELSE i

\* (?:\.\d{2})? from i.
DecEnd(s, i) ==
  IF At(s, i) = "." /\ IsDigit(At(s, i + 1)) /\ IsDigit(At(s, i + 2))
  THEN i + 3
  ELSE i

\* \d+(?:\.\d{2})? from i, where s[i] is a digit.
NumEnd(s, i) == DecEnd(s, DigitRunEnd(s, i))

\* int() of a run of digits.
RECURSIVE DigitsValue(_)
DigitsValue(ds) ==
  IF ds = <<>> THEN 0
  ELSE 10 * DigitsValue(SubSeq(ds, 1, Len(ds) - 1)) + DigitVal(ds[Len(ds)])

\* float() of a captured group: digits, then nothing or a point and two digits.
ToNumber(cap) ==
  LET e == DigitRunEnd(cap, 1)
  IN  IF e > Len(cap)
      THEN [w |-> DigitsValue(cap), c |-> 0]
      ELSE [w |-> DigitsValue(SubSeq(cap, 1, e - 1)),
            c |-> DigitsValue(SubSeq(cap, e + 1, Len(cap)))]

Zero == [w |-> 0, c |-> 0]

NumLess(a, b) == a.w < b.w \/ (a.w = b.w /\ a.c < b.c)

\* 0.01 < price < upper, for a whole number of units upper.
InRange(p, upper) == NumLess([w |-> 0, c |-> 1], p) /\ p.w < upper

\* The first match of re.search: the leftmost start position of a match.
\* A match is <<start, first, last>>: the capture is s[first..last].
NoMatch == <<0, 0, 0>>

Leftmost(ms) ==
  IF ms = {} THEN NoMatch
  ELSE CHOOSE m \in ms : \A o \in ms : m[1] <= o[1]

Group1(s, m) == SubSeq(s, m[2], m[3])

(***************************************************************************)
(* The patterns of extract_price_from_text.  Each operator gives the match *)
(* re.search finds in s, or NoMatch.                                       *)
(***************************************************************************)
\* [\$<pound><euro><yen>]\s*(\d+), the capture without its decimals.
SymbolThenDigits(s) ==
  Leftmost({ <<i, SpaceEnd(s, i + 1), DigitRunEnd(s, SpaceEnd(s, i + 1)) - 1>> :
             i \in { k \in 1..Len(s) :
                       /\ s[k] \in CurrencySymbols
                       /\ IsDigit(At(s, SpaceEnd(s, k + 1))) } })

\* [\$<pound><euro><yen>]\s*(\d+(?:\.\d{2})?)
\* (v1 writes (\d+(?:,\d{3})*(?:\.\d{2})?); it searches a text whose commas
\* are removed, where the two agree.)
SymbolThenNumber(s) ==
  Leftmost({ <<i, SpaceEnd(s, i + 1), NumEnd(s, SpaceEnd(s, i + 1)) - 1>> :
             i \in { k \in 1..Len(s) :
                       /\ s[k] \in CurrencySymbols
                       /\ IsDigit(At(s, SpaceEnd(s, k + 1))) } })

SymbolAt(s, k) == At(s, k) \in CurrencySymbols

\* USD under re.IGNORECASE.
UsdAt(s, k) ==
  UpperChar(At(s, k)) = "U" /\ UpperChar(At(s, k + 1)) = "S" /\ UpperChar(At(s, k + 2)) = "D"

\* What follows the number: a currency symbol, or USD.
TailAt(s, k, tail) == IF tail = "symbol" THEN SymbolAt(s, k) ELSE UsdAt(s, k)

\* The match of (\d+(?:\.\d{2})?)\s*TAIL that starts at the digit s[i].  The
\* decimals are tried first.
NumberThenAt(s, i, tail) ==
  LET e == DigitRunEnd(s, i)
      d == DecEnd(s, e)
  IN  IF d > e /\ TailAt(s, SpaceEnd(s, d), tail) THEN <<i, i, d - 1>>
      ELSE IF TailAt(s, SpaceEnd(s, e), tail) THEN <<i, i, e - 1>>
      ELSE NoMatch

NumberThen(s, tail) ==
  Leftmost({ NumberThenAt(s, i, tail) :
             i \in { k \in 1..Len(s) :
                       IsDigit(s[k]) /\ NumberThenAt(s, k, tail) # NoMatch } })

\* (\d+(?:\.\d{2})?)\s*[\$<pound><euro><yen>]
NumberThenSymbol(s) == NumberThen(s, "symbol")

\* USD\s*(\d+(?:\.\d{2})?)
UsdThenNumber(s) ==
  Leftmost({ <<i, SpaceEnd(s, i + 3), NumEnd(s, SpaceEnd(s, i + 3)) - 1>> :
             i \in { k \in 1..Len(s) :
                       UsdAt(s, k) /\ IsDigit(At(s, SpaceEnd(s, k + 3))) } })

\* (\d+(?:\.\d{2})?)\s*USD
NumberThenUsd(s) == NumberThen(s, "usd")

\* [:\s]* from i.
RECURSIVE ColonSpaceEnd(_, _)
ColonSpaceEnd(s, i) ==
  IF At(s, i) = ":" \/ IsSpace(At(s, i)) THEN ColonSpaceEnd(s, i + 1) ELSE i

\* Price under re.IGNORECASE.
PriceAt(s, k) ==
  /\ k + 4 <= Len(s)
  /\ Lower(SubSeq(s, k, k + 4)) = <<"p", "r", "i", "c", "e">>

\* Where the number of Price[:\s]+\$?(\d+...) starts, for "Price" at i.
LabelNumberStart(s, i) ==
  LET k == ColonSpaceEnd(s, i + 5)
  IN  IF At(s, k) = "$" THEN k + 1 ELSE k

\* Price[:\s]+\$?(\d+(?:\.\d{2})?)
LabelledPrice(s) ==
  Leftmost({ <<i, LabelNumberStart(s, i), NumEnd(s, LabelNumberStart(s, i)) - 1>> :
             i \in { k \in 1..Len(s) :
                       /\ PriceAt(s, k)
                       /\ ColonSpaceEnd(s, k + 5) > k + 5
                       /\ IsDigit(At(s, LabelNumberStart(s, k))) } })

\* \d{1,3} from i, where s[i] is a digit.
HeadEnd(s, i) ==
  IF ~IsDigit(At(s, i + 1)) THEN i + 1
  ELSE IF ~IsDigit(At(s, i + 2)) THEN i + 2
  ELSE i + 3

ThreeDigitsAt(s, i) ==
  IsDigit(At(s, i)) /\ IsDigit(At(s, i + 1)) /\ IsDigit(At(s, i + 2))

\* (?:,?\d{3})* from i.
RECURSIVE GroupsEnd(_, _)
GroupsEnd(s, i) ==
  IF At(s, i) = "," /\ ThreeDigitsAt(s, i + 1) THEN GroupsEnd(s, i + 4)
  ELSE IF ThreeDigitsAt(s, i) THEN GroupsEnd(s, i + 3)
  ELSE i

\* \$(\d{1,3}(?:,?\d{3})*(?:\.\d{2})?)
GroupedDollars(s) ==
  Leftmost({ <<i, i + 1, DecEnd(s, GroupsEnd(s, HeadEnd(s, i + 1))) - 1>> :
             i \in { k \in 1..Len(s) : s[k] = "$" /\ IsDigit(At(s, k + 1)) } })

\* (\d+(?:\.\d{2})?)
SimpleNumber(s) ==
  Leftmost({ <<i, i, NumEnd(s, i) - 1>> : i \in { k \in 1..Len(s) : IsDigit(s[k]) } })

(***************************************************************************)
(* EnhancedPriceCrawler.extract_price_from_text.                           *)
(***************************************************************************)
MaxPrice == 10000000

\* 0.01 < price < 10000000
PriceInRange(p) == InRange(p, MaxPrice)

CleanV2(t) == RemoveChar(RemoveChar(t, ","), " ")

PatternsV2(s) ==
  << SymbolThenNumber(s), NumberThenSymbol(s), UsdThenNumber(s),
     NumberThenUsd(s), LabelledPrice(s), GroupedDollars(s) >>

\* The first pattern that matches decides: its number if in range, else None.
FirstMatchOnly(clean_text, ms) ==
  LET k == SetMin({ j \in 1..Len(ms) : ms[j] # NoMatch })
  IN  IF \A j \in 1..Len(ms) : ms[j] = NoMatch THEN None
      ELSE IF PriceInRange(ToNumber(Group1(clean_text, ms[k])))
      THEN ToNumber(Group1(clean_text, ms[k]))
      ELSE None

\* The loop over the patterns, ms being their matches in clean_text: the
\* first that matches with a number in range returns it.
RangedNumber(clean_text, ms) ==
  LET ok == { k \in 1..Len(ms) :
                ms[k] # NoMatch /\ PriceInRange(ToNumber(Group1(clean_text, ms[k]))) }
  IN  IF ok = {} THEN None ELSE ToNumber(Group1(clean_text, ms[SetMin(ok)]))

extract_price_from_text_v2(t) ==
  LET clean_text == CleanV2(t)
  IN  RangedNumber(clean_text, PatternsV2(clean_text))

(***************************************************************************)
(* AutoPriceCrawler.extract_price_from_text: no range check.               *)
(***************************************************************************)
PatternsV1(s) == << SymbolThenNumber(s), NumberThenSymbol(s), SimpleNumber(s) >>

\* The loop over the patterns, ms being their matches in s: the first that
\* matches returns its number.
MatchedNumber(s, ms) ==
  LET ok == { k \in 1..Len(ms) : ms[k] # NoMatch }
  IN  IF ok = {} THEN None ELSE ToNumber(Group1(s, ms[SetMin(ok)]))

extract_price_from_text_v1(t) ==
  LET s == RemoveChar(t, ",")
  IN  MatchedNumber(s, PatternsV1(s))

\* Python's truth value of an Optional[float]: None and 0.0 are false.
Truthy(p) == p # None /\ p # Zero

(***************************************************************************)
(* Python floats.  The arithmetic of compare_prices is done on IEEE 754    *)
(* doubles: a positive double is [m, e], with 2^52 <= m < 2^53 and value   *)
(* m * 2^e; 0.0 is [m |-> <<>>, e |-> 0].  A whole number of any size is   *)
(* the sequence of its digits to the base 4096, highest first and not 0.   *)
(* Every result is rounded to the nearest double, ties to even.            *)
(***************************************************************************)
Precision == 53

DigitBits == 12

Base == 2 ^ DigitBits

\* The digits a dividend is extended by, enough for 53 bits and a rounding bit.
GuardDigits == 5

RECURSIVE BigOf(_)
BigOf(n) == IF n = 0 THEN << >> ELSE BigOf(n \div Base) \o << n % Base >>

RECURSIVE Trim(_)
Trim(a) == IF a # << >> /\ a[1] = 0 THEN Trim(Tail(a)) ELSE a

Front(a) == SubSeq(a, 1, Len(a) - 1)

RECURSIVE AddCarry(_, _, _)
AddCarry(a, b, carry) ==
  IF a = << >> /\ b = << >> THEN BigOf(carry)
  ELSE LET x == IF a = << >> THEN 0 ELSE a[Len(a)]
           y == IF b = << >> THEN 0 ELSE b[Len(b)]
           t == x + y + carry
       IN  AddCarry(IF a = << >> THEN a ELSE Front(a),
                    IF b = << >> THEN b ELSE Front(b), t \div Base) \o << t % Base >>

BigAdd(a, b) == AddCarry(a, b, 0)

\* a * k + carry, for a small whole number k.
RECURSIVE MulCarry(_, _, _)
MulCarry(a, k, carry) ==
  IF a = << >> THEN BigOf(carry)
  ELSE LET t == a[Len(a)] * k + carry
       IN  MulCarry(Front(a), k, t \div Base) \o << t % Base >>

\* Long division by a small whole number d: the quotient and the remainder.
RECURSIVE BigDiv(_, _)
BigDiv(a, d) ==
  IF a = << >> THEN [q |-> << >>, r |-> 0]
  ELSE LET p == BigDiv(Front(a), d)
           t == p.r * Base + a[Len(a)]
       IN  [q |-> p.q \o << t \div d >>, r |-> t % d]

\* a * 2^k
ShiftLeft(a, k) ==
  MulCarry(a, 2 ^ (k % DigitBits), 0) \o [i \in 1..(k \div DigitBits) |-> 0]

\* a \div 2^k, and whether anything was cut off.
ShiftRight(a, k) ==
  LET drop == k \div DigitBits
      kept == SubSeq(a, 1, Len(a) - drop)
      d == BigDiv(kept, 2 ^ (k % DigitBits))
  IN  [q |-> Trim(d.q),
       cut |-> d.r # 0 \/ \E i \in (Len(a) - drop + 1)..Len(a) : a[i] # 0]

\* The number of bits of a, which is not 0.
BitLength(a) ==
  DigitBits * (Len(a) - 1)
    + (CHOOSE k \in 1..DigitBits : 2 ^ (k - 1) <= a[1] /\ a[1] < 2 ^ k)

DZero == [m |-> << >>, e |-> 0]

\* The double nearest to a * 2^e, or to a little more than that if sticky.
RoundToDouble(a, sticky, e) ==
  LET q == Trim(a)
      n == BitLength(q)
      sh == ShiftRight(q, n - Precision - 1)
      half == sh.q[Len(sh.q)] % 2 = 1
      keep == Trim(BigDiv(sh.q, 2).q)
      odd == keep[Len(keep)] % 2 = 1
      up == BigAdd(keep, << 1 >>)
  IN  IF q = << >> THEN DZero
      ELSE IF n <= Precision
      THEN [m |-> ShiftLeft(q, Precision - n), e |-> e - (Precision - n)]
      ELSE IF ~(half /\ (sticky \/ sh.cut \/ odd))
      THEN [m |-> keep, e |-> e + n - Precision]
      ELSE IF BitLength(up) = Precision THEN [m |-> up, e |-> e + n - Precision]
      ELSE [m |-> Trim(BigDiv(up, 2).q), e |-> e + n - Precision + 1]

\* float() of the text of a price [w, c]: the double nearest to (100w + c)/100.
ToDouble(p) ==
  LET n == MulCarry(BigOf(p.w), 100, p.c)
      d == BigDiv(n \o [i \in 1..GuardDigits |-> 0], 100)
  IN  RoundToDouble(d.q, d.r # 0, 0 - GuardDigits * DigitBits)

\* x + y
DAdd(x, y) ==
  LET e == IF x.e < y.e THEN x.e ELSE y.e
  IN  IF x.m = << >> THEN y
      ELSE IF y.m = << >> THEN x
      ELSE RoundToDouble(BigAdd(ShiftLeft(x.m, x.e - e), ShiftLeft(y.m, y.e - e)), FALSE, e)

\* x / n for a whole number n > 0
DDivInt(x, n) ==
  LET d == BigDiv(x.m \o [i \in 1..GuardDigits |-> 0], n)
  IN  RoundToDouble(d.q, d.r # 0, x.e - GuardDigits * DigitBits)

\* a < b for two numbers of the same length.
BigLess(a, b) ==
  \E i \in 1..Len(a) : a[i] < b[i] /\ \A j \in 1..(i - 1) : a[j] = b[j]

\* x < y
DLess(x, y) ==
  IF y.m = << >> THEN FALSE
  ELSE IF x.m = << >> THEN TRUE
  ELSE x.e < y.e \/ (x.e = y.e /\ BigLess(x.m, y.m))

\* sum(prices_data): from 0, one addition after the other, left to right.
RECURSIVE DSum(_)
DSum(ds) == IF ds = << >> THEN DZero ELSE DAdd(DSum(Front(ds)), ds[Len(ds)])

(***************************************************************************)
(* The texts the parsers are applied to: a prefix, a number, a suffix.     *)
(***************************************************************************)
\* The longest run of zeros after a number's leading digit.
MaxZeros == 7

Zeros(k) == [i \in 1..k |-> "0"]

IntParts ==
  { <<d>> \o Zeros(k) : d \in {"0", "1", "9"}, k \in 0..MaxZeros }
    \cup { <<"1", "2", "3", "4">>, <<"1", ",", "2", "3", "4">>,
           <<"1", "2", ",", "3", "4", "5">>,
           <<"1", ",", "2", "3", "4", ",", "5", "6", "7">>,
           <<"1", "0", ",", "0", "0", "0", ",", "0", "0", "0">> }

DecParts ==
  { <<>>, <<".", "0", "0">>, <<".", "0", "1">>, <<".", "5", "6">>, <<".", "5">> }

PrefixParts ==
  { <<>>, <<"$">>, <<Pound>>, <<Euro>>, <<Yen>>, <<"$", " ">>, <<"U", "S", "D", " ">>,
    <<"P", "r", "i", "c", "e", ":", " ">>,
    <<"p", "r", "i", "c", "e", ":", " ", "$">>,
    <<"2", " ", "f", "o", "r", " ", "$">> }

SuffixParts ==
  { <<>>, <<"$">>, <<" ", "u", "s", "d">>, <<" ", "e", "a", "c", "h">> }

\* Texts with two numbers, which different patterns capture.
TwoPriceTexts ==
  { <<"5", " ", "U", "S", "D", " ", "o", "r", " ", "$", "7">>,
    <<"$", "1">> \o Zeros(MaxZeros) \o <<" ", "o", "r", " ", "5", " ", "U", "S", "D">> }

\* Texts with a currency code, and one with a code before a symbol.
CodeTexts ==
  { <<"1", "0", "0", " ">> \o code :
      code \in { <<"U", "S", "D">>, <<"G", "B", "P">>, <<"E", "U", "R">>, <<"J", "P", "Y">> } }
    \cup { <<"G", "B", "P", " ", "1", "0", "0", " ", "o", "r", " ", Euro, "9">> }

Texts ==
  { pre \o int \o dec \o suf :
      pre \in PrefixParts, int \in IntParts, dec \in DecParts, suf \in SuffixParts }
    \cup TwoPriceTexts \cup CodeTexts

(***************************************************************************)
(* Documents.  A parsed page (the soup) is the sequence of its elements in *)
(* document order; an element has a tag, its attributes (a function from   *)
(* attribute names to texts) and its own text.  Each element stands on a   *)
(* line of its own in the page.                                            *)
(***************************************************************************)
Node(tag, attrs, txt) == [tag |-> tag, attrs |-> attrs, text |-> txt]

NoAttrs == [a \in {} |-> << >>]

\* elem.get(name): the attribute's text, or None.
GetAttr(node, name) == IF name \in DOMAIN node.attrs THEN node.attrs[name] ELSE None

\* The truth value of elem.get(name): the attribute is there and not empty.
HasValue(node, name) == name \in DOMAIN node.attrs /\ node.attrs[name] # << >>

\* A class name of a selector is one of the words of the class attribute.
HasWord(s, word) ==
  \E i \in 1..Len(s) :
    /\ OccursAt(s, word, i)
    /\ (i = 1 \/ IsSpace(s[i - 1]))
    /\ (i + Len(word) > Len(s) \/ IsSpace(s[i + Len(word)]))

\* A CSS selector of the crawlers: an optional tag and one test of an attribute.
\*   "contains"  tag[attr*="val"]      "equals"  tag[attr="val"]
\*   "word"      tag.val  and  #val    "has"     tag[attr]
Sel(tag, kind, attr, val) == [tag |-> tag, kind |-> kind, attr |-> attr, val |-> val]

Matches(sel, node) ==
  /\ sel.tag = "" \/ sel.tag = node.tag
  /\ sel.attr \in DOMAIN node.attrs
  /\ CASE sel.kind = "contains" -> Contains(node.attrs[sel.attr], sel.val)
       [] sel.kind = "equals" -> node.attrs[sel.attr] = sel.val
       [] sel.kind = "word" ->
            IF sel.attr = "class" THEN HasWord(node.attrs[sel.attr], sel.val)
            ELSE node.attrs[sel.attr] = sel.val
       [] sel.kind = "has" -> TRUE

\* soup.select(selector): the matching elements in document order.
Select(doc, sel) == SelectSeq(doc, LAMBDA n : Matches(sel, n))

\* soup.select_one(selector): the first of them, or None.
SelectOne(doc, sel) == IF Select(doc, sel) = << >> THEN None ELSE Head(Select(doc, sel))

\* The elements the selectors of a list give, list order first, document
\* order within a selector.
RECURSIVE SelectAll(_, _)
SelectAll(doc, sels) ==
  IF sels = << >> THEN << >>
  ELSE Select(doc, Head(sels)) \o SelectAll(doc, Tail(sels))

\* elem.get_text(strip=True)
GetTextStripped(node) == Strip(node.text)

\* soup.get_text(): the text of the whole page, a line for each element.
RECURSIVE PageText(_)
PageText(doc) ==
  IF doc = << >> THEN << >>
  ELSE Head(doc).text \o <<"\n">> \o PageText(Tail(doc))

\* str.split('\n')
RECURSIVE SplitLines(_)
SplitLines(s) ==
  LET I == { i \in 1..Len(s) : s[i] = "\n" }
  IN  IF I = { } THEN << s >>
      ELSE << SubSeq(s, 1, SetMin(I) - 1) >> \o SplitLines(SubSeq(s, SetMin(I) + 1, Len(s)))

\* The first position of the sequence whose element passes the test, or 0.
FirstWhere(s, Test(_)) ==
  LET I == { i \in 1..Len(s) : Test(s[i]) }
  IN  IF I = { } THEN 0 ELSE SetMin(I)

\* What a strategy found: the price and the text it was read from.
Found(price, price_text) == [price |-> price, text |-> price_text]

NotFound == [price |-> None, text |-> << >>]

\* Words of the selectors.
WPrice == <<"p", "r", "i", "c", "e">>

WAmount == <<"a", "m", "o", "u", "n", "t">>

WProductPrice == <<"p", "r", "o", "d", "u", "c", "t", "-">> \o WPrice

WCurrentPrice == <<"c", "u", "r", "r", "e", "n", "t", "-">> \o WPrice

WSalePrice == <<"s", "a", "l", "e", "-">> \o WPrice

WPriceAmount == WPrice \o <<":">> \o WAmount

WProductPriceAmount == <<"p", "r", "o", "d", "u", "c", "t", ":">> \o WPriceAmount

WOgPriceAmount == <<"o", "g", ":">> \o WPriceAmount

(***************************************************************************)
(* detect_currency.  The dict of each variant, in insertion order.         *)
(***************************************************************************)
WUsd == <<"U", "S", "D">>

WGbp == <<"G", "B", "P">>

WEur == <<"E", "U", "R">>

WJpy == <<"J", "P", "Y">>

currencies_v1 ==
  << << <<"$">>, "$" >>, << <<Pound>>, Pound >>, << <<Euro>>, Euro >>,
     << <<Yen>>, Yen >>, << WUsd, "$" >>, << WGbp, Pound >>, << WEur, Euro >> >>

currencies_v2 == currencies_v1 \o << << WJpy, Yen >> >>

detect_currency_v1(t) ==
  LET k == FirstWhere(currencies_v1, LAMBDA e : Contains(t, e[1]))
  IN  IF k = 0 THEN "$" ELSE currencies_v1[k][2]

detect_currency_v2(t) ==
  LET k == FirstWhere(currencies_v2,
                      LAMBDA e : Contains(Upper(t), e[1]) \/ Contains(t, e[1]))
  IN  IF k = 0 THEN "$" ELSE currencies_v2[k][2]

(***************************************************************************)
(* APIPriceCrawler: the lookup tables, in the insertion order of the dict  *)
(* literals, which is the order the for loops of search_item visit.        *)
(***************************************************************************)
crypto_map ==
  << << <<"b", "i", "t", "c", "o", "i", "n">>, "bitcoin" >>,
     << <<"b", "t", "c">>, "bitcoin" >>,
     << <<"e", "t", "h", "e", "r", "e", "u", "m">>, "ethereum" >>,
     << <<"e", "t", "h">>, "ethereum" >>,
     << <<"l", "i", "t", "e", "c", "o", "i", "n">>, "litecoin" >>,
     << <<"l", "t", "c">>, "litecoin" >>,
     << <<"r", "i", "p", "p", "l", "e">>, "ripple" >>,
     << <<"x", "r", "p">>, "ripple" >>,
     << <<"c", "a", "r", "d", "a", "n", "o">>, "cardano" >>,
     << <<"a", "d", "a">>, "cardano" >> >>

metal_map ==
  << << <<"g", "o", "l", "d">>, "XAU" >>,
     << <<"s", "i", "l", "v", "e", "r">>, "XAG" >>,
     << <<"p", "l", "a", "t", "i", "n", "u", "m">>, "XPT" >>,
     << <<"p", "a", "l", "l", "a", "d", "i", "u", "m">>, "XPD" >> >>

commodity_map ==
  << << <<"c", "r", "u", "d", "e", " ", "o", "i", "l">>, "WTI" >>,
     << <<"o", "i", "l">>, "WTI" >>,
     << <<"w", "t", "i">>, "WTI" >>,
     << <<"b", "r", "e", "n", "t">>, "BRENT" >>,
     << <<"n", "a", "t", "u", "r", "a", "l", " ", "g", "a", "s">>, "NG" >> >>

\* for key, value in table.items(): if key in item_lower: the index of the
\* first entry whose key occurs in item_lower, or 0.
FirstKeyIn(table, item_lower) ==
  LET hits == { k \in 1..Len(table) : Contains(item_lower, table[k][1]) }
  IN  IF hits = {} THEN 0 ELSE SetMin(hits)

IsLetter(c) == c \in DOMAIN LowerOf \/ c \in DOMAIN UpperOf

\* str.title(): a letter after a letter is lowered, any other is raised.
Title(s) ==
  [i \in 1..Len(s) |->
     IF i > 1 /\ IsLetter(s[i - 1]) THEN LowerChar(s[i]) ELSE UpperChar(s[i])]

\* search_item with the metal table consulted before the crypto table.
ClassifyMetalFirst(item_name) ==
  LET item_lower == Lower(Strip(item_name))
      c == FirstKeyIn(crypto_map, item_lower)
      m == FirstKeyIn(metal_map, item_lower)
      o == FirstKeyIn(commodity_map, item_lower)
  IN  IF m > 0 THEN [kind |-> "metal", code |-> metal_map[m][2]]
      ELSE IF c > 0 THEN [kind |-> "crypto", code |-> crypto_map[c][2]]
      ELSE IF o > 0 THEN [kind |-> "commodity", code |-> commodity_map[o][2]]
      ELSE [kind |-> "unknown", code |-> ""]

\* The tables of search_item in the order it consults them; the first table
\* with a key in the lowered item name decides.
Classify(item_name) ==
  LET item_lower == Lower(Strip(item_name))
      c == FirstKeyIn(crypto_map, item_lower)
      m == FirstKeyIn(metal_map, item_lower)
      o == FirstKeyIn(commodity_map, item_lower)
  IN  IF c > 0 THEN [kind |-> "crypto", code |-> crypto_map[c][2]]
      ELSE IF m > 0 THEN [kind |-> "metal", code |-> metal_map[m][2]]
      ELSE IF o > 0 THEN [kind |-> "commodity", code |-> commodity_map[o][2]]
      ELSE [kind |-> "unknown", code |-> ""]

(***************************************************************************)
(* The item names of a batch.                                              *)
(***************************************************************************)
Bitcoin == <<"B", "i", "t", "c", "o", "i", "n">>
Gold == <<"G", "o", "l", "d">>
BitcoinGoldFund ==
  <<"b", "i", "t", "c", "o", "i", "n", " ", "g", "o", "l", "d", " ", "f", "u", "n", "d">>
CrudeOil == <<"C", "r", "u", "d", "e", " ", "O", "i", "l">>
Brent == <<"B", "r", "e", "n", "t">>

BrentOil == <<"B", "r", "e", "n", "t", " ", "o", "i", "l">>
NaturalGas == <<"N", "a", "t", "u", "r", "a", "l", " ", "G", "a", "s">>
Widget == <<"W", "i", "d", "g", "e", "t">>

ApiItems ==
  { Bitcoin, Gold, BitcoinGoldFund, CrudeOil, Brent, BrentOil, NaturalGas, Widget }

\* Classify on the item names of the model, computed once.
ClassOf == [n \in ApiItems |-> Classify(n)]

(***************************************************************************)
(* What a request can bring back.  kind "error" is a                       *)
(* requests.RequestException (timeout, connection error and, where the     *)
(* code calls raise_for_status, a non-2xx status); kind "http" is a        *)
(* response with a status and a body; the body is a JSON value (an object  *)
(* is a function on its keys, null is None) or BadJson, for which          *)
(* response.json() raises a ValueError.                                    *)
(***************************************************************************)
NetError == [kind |-> "error"]

BadJson == [badjson |-> TRUE]

Http(status, body) == [kind |-> "http", status |-> status, body |-> body]

EmptyObject == [k \in {} |-> None]

HasKey(obj, k) == obj # BadJson /\ k \in DOMAIN obj

\* A call's outcome: the value returned, or an exception that no handler of
\* the method catches; and the requests it sent.
Returned(value, reqs) == [ret |-> value, raised |-> FALSE, reqs |-> reqs]

Raised(reqs) == [ret |-> None, raised |-> TRUE, reqs |-> reqs]

\* An entry of the log: a request with the response it got, or a sleep of
\* n times the delay; item is the position in the batch of the item at work,
\* and got is the record a page crawler made of a page, if any.
Get(host, arg, resp) ==
  [op |-> "GET", host |-> host, arg |-> arg, resp |-> resp, got |-> None, item |-> 0]

Sleep(n) ==
  [op |-> "sleep", host |-> "", arg |-> n, resp |-> None, got |-> None, item |-> 0]

Stamp(entries, i) == [k \in 1..Len(entries) |-> [entries[k] EXCEPT !.item = i]]

\* The change cut to hundredths, not rounded.
Truncate2(x) == [e2 |-> x.e4 \div 100]

\* A quote's 24h change is a number of 1/10000 percent, [e4 |-> n]; round(x, 2)
\* gives hundredths, [e2 |-> n] (no input of the model is a tie).
Round2(x) == [e2 |-> (x.e4 + 50) \div 100]

NoChange == [e4 |-> 0]

Price(w, c) == [w |-> w, c |-> c]

Timestamp == "now"

\* fetch_crypto_price: raise_for_status, then the quote of crypto_id.
fetch_crypto_price(crypto_id, item_name, resp) ==
  LET reqs == << Get("api.coingecko.com", crypto_id, resp) >>
      data == resp.body
      quote == data[crypto_id]
      price == quote["usd"]
      change_24h == IF "usd_24h_change" \in DOMAIN quote
                    THEN quote["usd_24h_change"] ELSE NoChange
  IN  IF resp.kind = "error" \/ resp.status # 200 \/ data = BadJson
      THEN Returned(None, reqs)
      ELSE IF HasKey(data, crypto_id) /\ "usd" \in DOMAIN quote
      THEN IF change_24h = None \/ price = None
           THEN Raised(reqs)    \* round(None, 2), f"{None:,.2f}": TypeError
           ELSE Returned([item_name |-> item_name,
                          title |-> << Title(item_name), " (Cryptocurrency)" >>,
                          price |-> price,
                          currency |-> "$",
                          change_24h |-> Round2(change_24h),
                          source |-> "CoinGecko API",
                          api |-> "coingecko",
                          timestamp |-> Timestamp,
                          url |-> << "https://www.coingecko.com/en/coins/", crypto_id >>],
                         reqs)
      ELSE Returned(None, reqs)

\* round(a / b) for a >= 0, b > 0.
RoundDiv(a, b) == (2 * a + b) \div (2 * b)

\* A rate is a fraction [n, d]; round(1 / rate, 2) as a price.
InverseRounded(rate) ==
  LET cents == RoundDiv(100 * rate.d, rate.n)
  IN  Price(cents \div 100, cents % 100)

MetalRecord(item_name, price, source, api, url) ==
  [item_name |-> item_name,
   title |-> << Title(item_name), " per Troy Ounce" >>,
   price |-> price,
   currency |-> "$",
   unit |-> "troy oz",
   source |-> source,
   api |-> api,
   timestamp |-> Timestamp,
   url |-> url]

\* fetch_metal_price_alternative: the single-metal quote, used as it is.
fetch_metal_price_alternative(metal_code, item_name, resp) ==
  LET reqs == << Get("www.goldapi.io", metal_code, resp) >>
      data == resp.body
  IN  IF resp.kind = "error" \/ resp.status # 200 \/ data = BadJson
      THEN Returned(None, reqs)
      ELSE IF HasKey(data, "price")
      THEN IF data["price"] = None
           THEN Raised(reqs)    \* round(None, 2): TypeError
           ELSE Returned(MetalRecord(item_name, data["price"], "Gold API", "goldapi",
                                     "https://www.goldapi.io/"), reqs)
      ELSE Returned(None, reqs)

\* The outcome of a call with the caller's own requests before it.
After(reqs, out) == [out EXCEPT !.reqs = reqs \o out.reqs]

\* fetch_metal_price: the latest rates; the alternative only in the else
\* branch of `if response.status_code == 200`.
fetch_metal_price(metal_code, item_name, keys, resp, alt) ==
  LET reqs == << Get("api.metalpriceapi.com", metal_code, resp) >>
      data == resp.body
      rate == data["rates"][metal_code]
  IN  IF resp.kind = "error" THEN Returned(None, reqs)
      ELSE IF resp.status = 200
      THEN IF data = BadJson THEN Returned(None, reqs)
           ELSE IF HasKey(data, "rates") /\ HasKey(data["rates"], metal_code)
           THEN IF rate = None
                THEN Raised(reqs)    \* None > 0: TypeError
                ELSE Returned(MetalRecord(item_name,
                                IF rate.n > 0 THEN InverseRounded(rate) ELSE Zero,
                                "Metal Price API", "metalpriceapi",
                                "https://www.metalpriceapi.com/"), reqs)
           ELSE Returned(None, reqs)
      ELSE After(reqs, fetch_metal_price_alternative(metal_code, item_name, alt))

\* A JSON string is [str |-> text].  float(latest['value']) accepts the text:
\* digits with no or two decimals (the texts of the model; float accepts more).
IsFloatText(t) == t # <<>> /\ IsDigit(t[1]) /\ NumEnd(t, 1) = Len(t) + 1

\* fetch_commodity_price after its credential check: the request for the
\* series, raise_for_status, and the first entry of 'data'.
commodity_series(commodity_code, item_name, keys, resp) ==
  LET reqs == << Get("www.alphavantage.co",
                     IF commodity_code = "WTI" THEN "WTI" ELSE "BRENT", resp) >>
      data == resp.body
      latest == data["data"][1]
  IN  IF resp.kind = "error" \/ resp.status # 200 \/ data = BadJson
      THEN Returned(None, reqs)
      ELSE IF HasKey(data, "data") /\ Len(data["data"]) > 0
      THEN IF ~HasKey(latest, "value") THEN Returned(None, reqs)   \* KeyError
           ELSE IF latest["value"] = None THEN Raised(reqs)     \* float(None): TypeError
           ELSE IF ~IsFloatText(latest["value"].str) THEN Returned(None, reqs) \* ValueError
           ELSE Returned([item_name |-> item_name,
                          title |-> << Title(item_name), " per Barrel" >>,
                          price |-> ToNumber(latest["value"].str),
                          currency |-> "$",
                          unit |-> "barrel",
                          source |-> "Alpha Vantage",
                          api |-> "alphavantage",
                          timestamp |-> Timestamp,
                          url |-> "https://www.alphavantage.co/"], reqs)
      ELSE Returned(None, reqs)

\* The series is requested whether the credential is there or not.
KeyNotChecked(commodity_code, item_name, keys, resp) ==
  commodity_series(commodity_code, item_name, keys, resp)

\* fetch_commodity_price: nothing is requested without the credential.
fetch_commodity_price(commodity_code, item_name, keys, resp) ==
  IF "alphavantage" \notin keys
  THEN Returned(None, << >>)
  ELSE commodity_series(commodity_code, item_name, keys, resp)

\* search_item: the adapter of the item's class, on the responses resp (the
\* adapter's request) and alt (the alternative metal endpoint's).
search_item(item_name, keys, resp, alt) ==
  LET cls == ClassOf[item_name]
  IN  CASE cls.kind = "crypto" -> fetch_crypto_price(cls.code, item_name, resp)
        [] cls.kind = "metal" -> fetch_metal_price(cls.code, item_name, keys, resp, alt)
        [] cls.kind = "commodity" -> fetch_commodity_price(cls.code, item_name, keys, resp)
        [] OTHER -> Returned(None, << >>)


(***************************************************************************)
(* The documents of the model.  A document is put together from a title, a *)
(* meta tag, a heading, an element the selectors match and a line of text, *)
(* each of them optional.                                                  *)
(***************************************************************************)
T1000 == <<"1", "0", ".", "0", "0">>

T2000 == <<"2", "0", ".", "0", "0">>

T3000 == <<"3", "0", ".", "0", "0">>

T4000 == <<"4", "0", ".", "0", "0">>

TitleParts ==
  { << >>, << Node("title", NoAttrs, <<" ", "S", "h", "o", "p", " ">>) >> }

MetaParts ==
  { << >>,
    << Node("meta", "property" :> WProductPriceAmount @@ "content" :> T1000, << >>) >>,
    << Node("meta", "property" :> WProductPriceAmount @@ "content" :> <<"$">> \o T1000, << >>) >>,
    << Node("meta", "property" :> WProductPriceAmount
                      @@ "content" :> <<"1", "0", "0", "0", "0", "0", "0", "0">>, << >>) >>,
    << Node("meta", "property" :> WProductPriceAmount @@ "content" :> << >>, << >>) >>,
    << Node("meta", "property" :> WOgPriceAmount @@ "content" :> <<Euro>> \o T1000, << >>) >>,
    << Node("meta", "itemprop" :> WPrice @@ "content" :> <<"$">> \o T1000, << >>) >> }

\* The length of a heading longer than a title may be.
LongHeading == 105

HeadingParts ==
  { << >>, << Node("h1", NoAttrs, <<"G", "o", "l", "d", " ", "B", "a", "r">>) >>,
    << Node("h1", NoAttrs, <<" ">> \o [i \in 1..LongHeading |-> "x"]) >> }

ElementParts ==
  { << >>,
    << Node("span", "class" :> WPrice, <<"$">> \o T2000) >>,
    << Node("div", "class" :> WProductPrice, <<" ", Pound>> \o T2000 \o <<" ">>) >>,
    << Node("span", "class" :> WAmount, T2000) >>,
    << Node("div", "data-price" :> <<"$", "3", "0", ".", "0", "0">>, T2000) >>,
    << Node("p", "class" :> WPrice, <<"C", "a", "l", "l", " ", "u", "s">>),
       Node("b", "id" :> WPrice, <<"$">> \o T2000) >>,
    << Node("b", "id" :> WPrice, <<"$">> \o T4000),
       Node("span", "class" :> WPrice @@ "data-price" :> <<"$">> \o T3000,
            <<"$">> \o T2000) >>,
    << Node("span", "class" :> WPrice @@ "data-price" :> <<"n", "/", "a">>,
            <<"$">> \o T2000) >>,
    << Node("span", "class" :> WPrice, <<"$">> \o T2000),
       Node("div", "class" :> WPrice, <<"$">> \o T4000) >> }

LineParts ==
  { << >>,
    << Node("p", NoAttrs, <<"P", "r", "i", "c", "e", ":", " ", "$", "5", ".", "0", "0">>) >>,
    << Node("p", NoAttrs, <<Pound>> \o T2000) >>,
    << Node("p", NoAttrs, <<"B", "u", "y", " ", "3", ",", "0", "0", "0">>) >> }

Docs ==
  { t \o m \o h \o e \o l :
      t \in TitleParts, m \in MetaParts, h \in HeadingParts,
      e \in ElementParts, l \in LineParts }

PricedDoc == << Node("span", "class" :> WPrice, <<"$">> \o T2000) >>

PlainDoc == << Node("p", NoAttrs, <<"C", "a", "l", "l", " ", "u", "s">>) >>

ModelDocs == Docs \cup { PricedDoc, PlainDoc }

(***************************************************************************)
(* Pages.  A URL is the record of its parts, so that urlparse(url).netloc  *)
(* is a field; a page response is NetError or Http(status, document).      *)
(* requests.get followed by raise_for_status gives the document when the   *)
(* status is below 400 and raises a RequestException otherwise.            *)
(***************************************************************************)
Url(netloc, path) == [netloc |-> netloc, path |-> path]

Fetched(resp) == resp.kind = "http" /\ resp.status < 400

\* The log entry of a page fetch and of what the crawler made of the page.
Fetch(url, resp, price_data) ==
  [Get(url.netloc, url.path, resp) EXCEPT !.got = price_data]

\* A record built from a page.
PageRecord(item_name, title, found, currency, url) ==
  [item_name |-> item_name,
   title |-> title,
   price |-> found.price,
   currency |-> currency,
   url |-> url,
   timestamp |-> Timestamp,
   source |-> url.netloc]

\* s[:100]
Clip(s, n) == SubSeq(s, 1, IF Len(s) < n THEN Len(s) ELSE n)

\* title_elem = soup.select_one('h1') or soup.select_one('title'); its
\* stripped text cut to 100 characters, or the item name without one.
PageTitle(doc, item_name) ==
  LET hs == SelectSeq(doc, LAMBDA n : n.tag = "h1")
      ts == SelectSeq(doc, LAMBDA n : n.tag = "title")
  IN  IF hs # << >> THEN Clip(GetTextStripped(Head(hs)), 100)
      ELSE IF ts # << >> THEN Clip(GetTextStripped(Head(ts)), 100)
      ELSE item_name

(***************************************************************************)
(* AutoPriceCrawler.smart_crawl_url                                        *)
(***************************************************************************)
price_selectors_v1 ==
  << Sel("", "contains", "class", WPrice),
     Sel("", "contains", "id", WPrice),
     Sel("span", "word", "class", WPrice),
     Sel("div", "word", "class", WPrice),
     Sel("p", "word", "class", WPrice),
     Sel("", "word", "class", WProductPrice),
     Sel("", "word", "class", WCurrentPrice),
     Sel("", "word", "class", WSalePrice),
     Sel("", "equals", "itemprop", WPrice),
     Sel("span", "contains", "class", WAmount),
     Sel("meta", "equals", "property", WProductPriceAmount) >>

\* 0.01 < potential_price < 1000000
SelectorRange == 1000000

\* "if not price": the next strategy is tried only while none has found one.
OrElse(found, next) == IF Truthy(found.price) THEN found ELSE next

\* The first reading of a sequence that has a price, or NotFound.
FirstFound(readings) ==
  LET k == FirstWhere(readings, LAMBDA r : Truthy(r.price))
  IN  IF k = 0 THEN NotFound ELSE readings[k]

\* potential_price and 0.01 < potential_price < 1000000
RangedV1(potential_price, price_text) ==
  IF Truthy(potential_price) /\ InRange(potential_price, SelectorRange)
  THEN Found(potential_price, price_text)
  ELSE NotFound

\* One element of strategy 1: its stripped text, parsed.
ElementPriceV1(elem) ==
  RangedV1(extract_price_from_text_v1(GetTextStripped(elem)), GetTextStripped(elem))

\* Strategy 1: the first element, selectors in list order, whose stripped
\* text parses to a price in the range.
SelectorPriceV1(doc) ==
  LET elems == SelectAll(doc, price_selectors_v1)
  IN  FirstFound([k \in 1..Len(elems) |-> ElementPriceV1(elems[k])])

\* price = extract_price_from_text(content); price_text is set with a price.
ContentPrice(price, content) == Found(price, IF Truthy(price) THEN content ELSE << >>)

MetaTagPriceV1(meta_price) ==
  IF meta_price # None /\ HasValue(meta_price, "content")
  THEN ContentPrice(extract_price_from_text_v1(meta_price.attrs["content"]),
                    meta_price.attrs["content"])
  ELSE NotFound

\* Strategy 2: the content of the first product:price:amount meta tag, as
\* the parser gives it.
MetaPriceV1(doc) ==
  MetaTagPriceV1(SelectOne(doc, Sel("meta", "equals", "property", WProductPriceAmount)))

\* (?:price|cost|buy) under re.IGNORECASE at position i: its length, or 0.
LabelLen(s, i) ==
  IF i + 4 <= Len(s) /\ Lower(SubSeq(s, i, i + 4)) = WPrice THEN 5
  ELSE IF i + 3 <= Len(s) /\ Lower(SubSeq(s, i, i + 3)) = <<"c", "o", "s", "t">> THEN 4
  ELSE IF i + 2 <= Len(s) /\ Lower(SubSeq(s, i, i + 2)) = <<"b", "u", "y">> THEN 3
  ELSE 0

\* (?:,\d{3})* from i.
RECURSIVE CommaGroupsEnd(_, _)
CommaGroupsEnd(s, i) ==
  IF At(s, i) = "," /\ ThreeDigitsAt(s, i + 1) THEN CommaGroupsEnd(s, i + 4) ELSE i

\* \d+(?:,\d{3})*(?:\.\d{2})? from i, where s[i] is a digit.
GroupedNumEnd(s, i) == DecEnd(s, CommaGroupsEnd(s, DigitRunEnd(s, i)))

\* [$<pound><euro><yen>]?\s*(\d+...) from k: where the number starts, or 0.
NumberStart(s, k) ==
  IF SymbolAt(s, k) /\ IsDigit(At(s, SpaceEnd(s, k + 1))) THEN SpaceEnd(s, k + 1)
  ELSE IF IsDigit(At(s, k)) THEN k
  ELSE 0

AfterLabel(s, i, len) == IF len = 0 THEN 0 ELSE NumberStart(s, ColonSpaceEnd(s, i + len))

\* Where the number of (?:price|cost|buy)[\s:]*[$<pound><euro><yen>]?\s*(\d+...)
\* starts for a label at i, or 0 when the pattern does not match at i.
ContextNumberStart(s, i) == AfterLabel(s, i, LabelLen(s, i))

\* Strategy 3: re.finditer over the page text from position from on; the
\* first match whose text (match.group()) parses to a price in the range.
RECURSIVE ContextPriceV1(_, _)
\* The match s[i..last], and the matches after it.
ContextMatchV1(s, i, last) ==
  OrElse(RangedV1(extract_price_from_text_v1(SubSeq(s, i, last)), SubSeq(s, i, last)),
         ContextPriceV1(s, last + 1))

ContextPriceV1(s, from) ==
  LET I == { i \in from..Len(s) : ContextNumberStart(s, i) # 0 }
  IN  IF I = { } THEN NotFound
      ELSE ContextMatchV1(s, SetMin(I),
                          GroupedNumEnd(s, ContextNumberStart(s, SetMin(I))) - 1)

\* The three strategies, each tried only if price is still false.
LocatePriceV1(doc) ==
  OrElse(OrElse(SelectorPriceV1(doc), MetaPriceV1(doc)),
         ContextPriceV1(PageText(doc), 1))

\* LocatePriceV1 on the documents of the model, computed once.
LocatedV1 == [doc \in ModelDocs |-> LocatePriceV1(doc)]

\* "if not price: return None", then the record of the page.
ResultV1(url, item_name, doc, found) ==
  IF ~Truthy(found.price) THEN None
  ELSE PageRecord(item_name, PageTitle(doc, item_name), found,
                  detect_currency_v1(found.text), url)

smart_crawl_url_v1(url, item_name, resp) ==
  IF ~Fetched(resp) THEN None
  ELSE ResultV1(url, item_name, resp.body, LocatedV1[resp.body])

(***************************************************************************)
(* EnhancedPriceCrawler.smart_crawl_url and check_known_source             *)
(***************************************************************************)
meta_selectors ==
  << Sel("meta", "equals", "property", WProductPriceAmount),
     Sel("meta", "equals", "property", WOgPriceAmount),
     Sel("meta", "equals", "name", WPrice),
     Sel("meta", "equals", "itemprop", WPrice) >>

price_selectors_v2 ==
  << Sel("", "equals", "itemprop", WPrice),
     Sel("", "word", "class", WPrice),
     Sel("", "word", "id", WPrice),
     Sel("span", "word", "class", WPrice),
     Sel("", "word", "class", WProductPrice),
     Sel("", "word", "class", WSalePrice),
     Sel("", "contains", "class", WPrice),
     Sel("", "has", "data-price", << >>) >>

MetaTagPriceV2(meta) ==
  IF meta # None /\ HasValue(meta, "content")
  THEN ContentPrice(extract_price_from_text_v2(meta.attrs["content"]),
                    meta.attrs["content"])
  ELSE NotFound

\* Strategy 1: for each meta selector the first matching tag; the first of
\* them with a content that parses supplies the price.
MetaPriceV2(doc) ==
  FirstFound([k \in 1..Len(meta_selectors) |->
                MetaTagPriceV2(SelectOne(doc, meta_selectors[k]))])

\* The data-price attribute of an element, parsed, when it has one.
DataPriceV2(elem) ==
  IF HasValue(elem, "data-price")
  THEN ContentPrice(extract_price_from_text_v2(elem.attrs["data-price"]),
                    elem.attrs["data-price"])
  ELSE NotFound

\* The stripped text of an element, parsed, when it is not empty.
TextPriceV2(text_content) ==
  IF text_content # << >>
  THEN ContentPrice(extract_price_from_text_v2(text_content), text_content)
  ELSE NotFound

\* The text of the element first, then its data-price attribute.
TextBeforeData(elem) ==
  OrElse(TextPriceV2(GetTextStripped(elem)), DataPriceV2(elem))

\* One element of strategy 2: the data-price attribute first, then the text.
ElementPriceV2(elem) ==
  OrElse(DataPriceV2(elem), TextPriceV2(GetTextStripped(elem)))

\* Strategy 2: the first element, selectors in list order, that gives a price.
SelectorPriceV2(doc) ==
  LET elems == SelectAll(doc, price_selectors_v2)
  IN  FirstFound([k \in 1..Len(elems) |-> ElementPriceV2(elems[k])])

\* str.strip on each line of a sequence.
StripEach(lines) == [k \in 1..Len(lines) |-> Strip(lines[k])]

\* The stripped lines of the page text that are not empty.
PageLines(doc) ==
  SelectSeq(StripEach(SplitLines(PageText(doc))), LAMBDA line : line # << >>)

\* 0.01 < potential_price < 100000
FullTextRange == 100000

\* potential_price and 0.01 < potential_price < 100000
RangedV2(potential_price, line) ==
  IF Truthy(potential_price) /\ InRange(potential_price, FullTextRange)
  THEN Found(potential_price, line)
  ELSE NotFound

\* One line of strategy 3: a short line with a '$' or the word price.
LinePriceV2(line) ==
  IF Len(line) < 200 /\ (Contains(line, <<"$">>) \/ Contains(Lower(line), WPrice))
  THEN RangedV2(extract_price_from_text_v2(line), line)
  ELSE NotFound

\* The readings of the lines, in order.
EachLine(lines, Reading(_)) == [k \in 1..Len(lines) |-> Reading(lines[k])]

\* Strategy 3: the first such line that parses to a price in the range.
FullTextPriceV2(doc) == FirstFound(EachLine(PageLines(doc), LinePriceV2))

\* The cascade without its third strategy.
LocateWithoutFullText(doc) == OrElse(MetaPriceV2(doc), SelectorPriceV2(doc))

LocatePriceV2(doc) ==
  OrElse(OrElse(MetaPriceV2(doc), SelectorPriceV2(doc)), FullTextPriceV2(doc))

\* LocatePriceV2 on the documents of the model, computed once.
LocatedV2 == [doc \in ModelDocs |-> LocatePriceV2(doc)]

\* "if not price: return None", then the record of the page.
ResultV2(url, item_name, title, found) ==
  IF ~Truthy(found.price) THEN None
  ELSE PageRecord(item_name, title, found, detect_currency_v2(found.text), url)

smart_crawl_url_v2(url, item_name, resp) ==
  IF ~Fetched(resp) THEN None
  ELSE ResultV2(url, item_name, PageTitle(resp.body, item_name), LocatedV2[resp.body])

\* One line of a known source: of 1 to 99 characters after stripping.
KnownLinePrice(line) ==
  IF Len(line) < 100
  THEN ContentPrice(extract_price_from_text_v2(line), line)
  ELSE NotFound

\* The first line of the page text, of 1 to 99 characters after stripping,
\* that parses to a price.
KnownSourcePrice(doc) == FirstFound(EachLine(PageLines(doc), KnownLinePrice))

\* KnownSourcePrice on the documents of the model, computed once.
LocatedKnown == [doc \in ModelDocs |-> KnownSourcePrice(doc)]

\* check_known_source: the title is the item name.
check_known_source(url, item_name, resp) ==
  IF ~Fetched(resp) THEN None
  ELSE ResultV2(url, item_name, item_name, LocatedKnown[resp.body])

(***************************************************************************)
(* compare_prices, the same code in AutoPriceCrawler and                   *)
(* EnhancedPriceCrawler.  A mapping is a function on its keys.             *)
(***************************************************************************)
\* Every list has an entry.
NeverSkipped(price_list) == FALSE

\* if not price_list: continue
Skipped(price_list) == price_list = << >>

\* min(prices_data) and max(prices_data): the first of the least, of the greatest.
LowestPrice(ps) ==
  ps[SetMin({ i \in 1..Len(ps) : \A j \in 1..Len(ps) : ~NumLess(ps[j], ps[i]) })]

HighestPrice(ps) ==
  ps[SetMin({ i \in 1..Len(ps) : \A j \in 1..Len(ps) : ~NumLess(ps[i], ps[j]) })]

\* sum(prices_data) / len(prices_data)
Average(ps) == DDivInt(DSum([k \in 1..Len(ps) |-> ToDouble(ps[k])]), Len(ps))

\* comparison[item]: the four fields of every record, and the statistics
\* of the prices if there is any.
Summary(price_list) ==
  LET prices_data == [k \in 1..Len(price_list) |-> price_list[k].price]
  IN  [prices |-> [k \in 1..Len(price_list) |->
                     [source |-> price_list[k].source,
                      price |-> price_list[k].price,
                      currency |-> price_list[k].currency,
                      url |-> price_list[k].url]],
       lowest |-> IF prices_data # << >> THEN LowestPrice(prices_data) ELSE None,
       highest |-> IF prices_data # << >> THEN HighestPrice(prices_data) ELSE None,
       average |-> IF prices_data # << >> THEN Average(prices_data) ELSE None]

compare_prices_v1(results_map) ==
  [item \in { k \in DOMAIN results_map : ~Skipped(results_map[k]) } |->
     Summary(results_map[item])]

compare_prices_v2(results_map) ==
  [item \in { k \in DOMAIN results_map : ~Skipped(results_map[k]) } |->
     Summary(results_map[item])]

(***************************************************************************)
(* The responses the model lets each endpoint give.                        *)
(***************************************************************************)
CryptoQuotes ==
  { "usd" :> Price(65000, 12) @@ "usd_24h_change" :> [e4 |-> 15000],
    "usd" :> Price(65000, 12) @@ "usd_24h_change" :> [e4 |-> -12346],
    "usd" :> Price(65000, 12),
    "usd" :> Price(65000, 12) @@ "usd_24h_change" :> None,
    "eur" :> Price(60000, 0) }

CryptoResponses(crypto_id) ==
  { NetError, Http(500, EmptyObject), Http(200, BadJson), Http(200, EmptyObject) }
    \cup { Http(200, crypto_id :> q) : q \in CryptoQuotes }

MetalRates == { [n |-> 47, d |-> 100000], [n |-> 0, d |-> 1] }

MetalResponses(metal_code) ==
  { NetError, Http(500, EmptyObject), Http(200, BadJson), Http(200, EmptyObject),
    Http(200, "rates" :> EmptyObject) }
    \cup { Http(200, "rates" :> (metal_code :> r)) : r \in MetalRates }

AlternativeResponses ==
  { NetError, Http(500, EmptyObject), Http(200, BadJson), Http(200, EmptyObject),
    Http(200, "price" :> Price(2130, 50)) }

CommodityPoints ==
  { "value" :> [str |-> <<"7", "5", ".", "5", "0">>],
    "value" :> [str |-> <<".">>],
    "date" :> [str |-> <<"2", "0", "2", "4">>] }

CommodityResponses ==
  { NetError, Http(500, EmptyObject), Http(200, BadJson), Http(200, EmptyObject),
    Http(200, "data" :> << >>) }
    \cup { Http(200, "data" :> << pt >>) : pt \in CommodityPoints }

\* The responses an item's adapter can get to its first request.
ResponsesFor(item_name) ==
  LET cls == ClassOf[item_name]
  IN  CASE cls.kind = "crypto" -> CryptoResponses(cls.code)
        [] cls.kind = "metal" -> MetalResponses(cls.code)
        [] cls.kind = "commodity" -> CommodityResponses
        [] OTHER -> { NetError }

\* The longest list of items a batch is given.
MaxItems == 2

SeqsUpTo(S, n) == UNION { [1..k -> S] : k \in 0..n }

Services == { "alphavantage", "metals_api" }

(***************************************************************************)
(* The exports.  A CSV file is its header row and its data rows, a row a   *)
(* function from the fields of the header to cells; csv.DictWriter writes  *)
(* the empty string for a field a record lacks (restval) and raises a      *)
(* ValueError at the first record with a key that is no field              *)
(* (extrasaction = 'raise'), the rows before it being written.             *)
(***************************************************************************)
\* The key names of the records, in lexicographic order.
KeyOrder ==
  << "api", "change_24h", "currency", "item_name", "price", "source",
     "timestamp", "title", "unit", "url" >>

\* sorted(keys)
Sorted(keys) == SelectSeq(KeyOrder, LAMBDA k : k \in keys)

\* record.keys() of a record of smart_crawl_url or check_known_source, the
\* only records of AutoPriceCrawler and EnhancedPriceCrawler: insertion order.
PageRecordKeys ==
  << "item_name", "title", "price", "currency", "url", "timestamp", "source" >>

EmptyCell == ""

Fields(fieldnames) == { fieldnames[k] : k \in 1..Len(fieldnames) }

\* The positions of the records that have a key outside the fields.
Extras(fieldnames, records) ==
  { i \in 1..Len(records) : DOMAIN records[i] \ Fields(fieldnames) # { } }

Row(fieldnames, record) ==
  [f \in Fields(fieldnames) |-> IF f \in DOMAIN record THEN record[f] ELSE EmptyCell]

\* writer.writeheader(); writer.writerows(records), stopped by the record at
\* position bad if there is one (bad = 0: none).
WriteRows(fieldnames, records, bad) ==
  [header |-> fieldnames,
   rows |-> [i \in 1..(IF bad = 0 THEN Len(records) ELSE bad - 1) |->
               Row(fieldnames, records[i])],
   raised |-> bad # 0]

DictWriter(fieldnames, records) ==
  WriteRows(fieldnames, records,
            IF Extras(fieldnames, records) = { } THEN 0
            ELSE SetMin(Extras(fieldnames, records)))

\* all_keys of APIPriceCrawler.save_to_csv
AllKeys(records) == UNION { DOMAIN records[i] : i \in 1..Len(records) }

\* APIPriceCrawler.save_to_csv: no file for an empty history; the fields are
\* the sorted union of the keys of all records.
save_to_csv_api(history) ==
  IF history = << >> THEN None
  ELSE DictWriter(Sorted(AllKeys(history)), history)

\* AutoPriceCrawler.save_to_csv: the fields are the keys of the first record.
save_to_csv_v1(history) ==
  IF history = << >> THEN None
  ELSE DictWriter(PageRecordKeys, history)

\* EnhancedPriceCrawler.save_to_csv: the same code.
save_to_csv_v2(history) ==
  IF history = << >> THEN None
  ELSE DictWriter(PageRecordKeys, history)

\* save_to_json: json.dump(self.price_history, f)
save_to_json(history) == [records |-> history]

(***************************************************************************)
(* APIPriceCrawler as a state machine: add_api_key before the batch, then  *)
(* search_multiple_items, one step for each pass of its for loop.          *)
(***************************************************************************)
TextIdle ==
  /\ text = << >>
  /\ tout = [fn |-> "none", out |-> None]

PageIdle ==
  /\ page = NetError
  /\ pout = [fn |-> "none", out |-> None]

CompareIdle ==
  /\ price_results = EmptyObject
  /\ comparison = [fn |-> "none", out |-> None]

\* A crawler object after __init__, and no batch under way.
BatchIdle ==
  /\ api_keys = { }
  /\ price_history = << >>
  /\ pc = "idle"
  /\ items = << >>
  /\ idx = 1
  /\ results = EmptyObject
  /\ log = << >>
  /\ written = [fn |-> "none", out |-> None]

\* No search_and_crawl under way.
SearchIdle ==
  /\ stage = "none"
  /\ kidx = 0
  /\ urls = << >>
  /\ uidx = 1
  /\ found_prices = << >>

\* The state of the crawler variables in a specification that leaves them alone.
CrawlerIdle ==
  /\ BatchIdle
  /\ SearchIdle
  /\ variant = "api"
  /\ max_results = 0

\* __init__
ApiInit ==
  /\ TextIdle
  /\ PageIdle
  /\ CompareIdle
  /\ CrawlerIdle

\* add_api_key(service, key); only the services that have a key are kept.
add_api_key(service) ==
  /\ variant = "api"
  /\ pc = "idle"
  /\ service \notin api_keys
  /\ api_keys' = api_keys \cup { service }
  /\ UNCHANGED <<price_history, bvars, cvars, xvars, fvars>>

\* search_multiple_items(its): results = {} and the loop is entered.
ApiStart(its) ==
  /\ variant = "api"
  /\ pc = "idle"
  /\ items' = its
  /\ idx' = 1
  /\ results' = EmptyObject
  /\ pc' = IF its = << >> THEN "done" ELSE "run"
  /\ UNCHANGED <<log, ovars, cvars, xvars, fvars>>

\* results[item] = value
Store(map, key, value) ==
  [k \in DOMAIN map \cup { key } |-> IF k = key THEN value ELSE map[k]]

\* time.sleep(delay * n) unless the item equals the last item of the list.
Pacing(item, its, n) == IF item # its[Len(its)] THEN << Sleep(n) >> ELSE << >>

\* The pass with a history that keeps the latest record only.
ApiPassLatestOnly(out) ==
  LET item == items[idx]
  IN  variant = "api" /\
      IF out.raised
      THEN /\ pc' = "raised"
           /\ log' = log \o Stamp(out.reqs, idx)
           /\ UNCHANGED <<items, idx, results, ovars, cvars, xvars, fvars>>
      ELSE /\ results' = Store(results, item, out.ret)
           /\ price_history' = IF out.ret # None THEN << out.ret >> ELSE price_history
           /\ log' = log \o Stamp(out.reqs \o Pacing(item, items, 1), idx)
           /\ idx' = idx + 1
           /\ pc' = IF idx = Len(items) THEN "done" ELSE "run"
           /\ UNCHANGED <<items, api_keys, cvars, xvars, fvars>>

\* One pass of the for loop of search_multiple_items, for the outcome out of
\* search_item: an exception leaves the loop and the method.
ApiPass(out) ==
  LET item == items[idx]
  IN  variant = "api" /\
      IF out.raised
      THEN /\ pc' = "raised"
           /\ log' = log \o Stamp(out.reqs, idx)
           /\ UNCHANGED <<items, idx, results, ovars, cvars, xvars, fvars>>
      ELSE /\ results' = Store(results, item, out.ret)
           /\ price_history' =
                IF out.ret # None THEN Append(price_history, out.ret) ELSE price_history
           /\ log' = log \o Stamp(out.reqs \o Pacing(item, items, 1), idx)
           /\ idx' = idx + 1
           /\ pc' = IF idx = Len(items) THEN "done" ELSE "run"
           /\ UNCHANGED <<items, api_keys, cvars, xvars, fvars>>

ApiCrypto ==
  /\ pc = "run"
  /\ ClassOf[items[idx]].kind = "crypto"
  /\ \E resp \in ResponsesFor(items[idx]) :
       ApiPass(search_item(items[idx], api_keys, resp, NetError))

ApiMetal ==
  /\ pc = "run"
  /\ ClassOf[items[idx]].kind = "metal"
  /\ \E resp \in ResponsesFor(items[idx]), alt \in AlternativeResponses :
       ApiPass(search_item(items[idx], api_keys, resp, alt))

ApiCommodity ==
  /\ pc = "run"
  /\ ClassOf[items[idx]].kind = "commodity"
  /\ \E resp \in ResponsesFor(items[idx]) :
       ApiPass(search_item(items[idx], api_keys, resp, NetError))

ApiUnknown ==
  /\ pc = "run"
  /\ ClassOf[items[idx]].kind = "unknown"
  /\ ApiPass(search_item(items[idx], api_keys, NetError, NetError))

ApiNext ==
  \/ \E service \in Services : add_api_key(service)
  \/ \E its \in SeqsUpTo(ApiItems, MaxItems) : ApiStart(its)
  \/ ApiCrypto
  \/ ApiMetal
  \/ ApiCommodity
  \/ ApiUnknown

SpecApi == ApiInit /\ [][ApiNext]_vars


(***************************************************************************)
(* The parsers on their own: a text is chosen, and each step applies one   *)
(* parser to it.                                                           *)
(***************************************************************************)
TextInit ==
  /\ text \in Texts
  /\ tout = [fn |-> "none", out |-> None]
  /\ PageIdle
  /\ CompareIdle
  /\ CrawlerIdle

ParseV2 ==
  /\ tout' = [fn |-> "extract_v2", out |-> extract_price_from_text_v2(text)]
  /\ UNCHANGED <<text, dvars, mvars, ovars, bvars, cvars, xvars>>

ParseV1 ==
  /\ tout' = [fn |-> "extract_v1", out |-> extract_price_from_text_v1(text)]
  /\ UNCHANGED <<text, dvars, mvars, ovars, bvars, cvars, xvars>>

DetectV2 ==
  /\ tout' = [fn |-> "detect_v2", out |-> detect_currency_v2(text)]
  /\ UNCHANGED <<text, dvars, mvars, ovars, bvars, cvars, xvars>>

DetectV1 ==
  /\ tout' = [fn |-> "detect_v1", out |-> detect_currency_v1(text)]
  /\ UNCHANGED <<text, dvars, mvars, ovars, bvars, cvars, xvars>>

TextNext == ParseV2 \/ ParseV1 \/ DetectV2 \/ DetectV1

SpecText == TextInit /\ [][TextNext]_vars

(***************************************************************************)
(* The page crawlers on their own: a response is chosen, and each step     *)
(* applies one crawler to it.                                              *)
(***************************************************************************)
PageResponses == { NetError, Http(404, << >>) } \cup { Http(200, d) : d \in Docs }

ShopUrl == Url("shop.example", "/item")

ItemName == <<"g", "o", "l", "d", " ", "b", "a", "r">>

PageInit ==
  /\ page \in PageResponses
  /\ pout = [fn |-> "none", out |-> None]
  /\ TextIdle
  /\ CompareIdle
  /\ CrawlerIdle

CrawlV1 ==
  /\ pout' = [fn |-> "smart_crawl_url_v1", out |-> smart_crawl_url_v1(ShopUrl, ItemName, page)]
  /\ UNCHANGED <<page, tvars, mvars, ovars, bvars, cvars, xvars>>

CrawlV2 ==
  /\ pout' = [fn |-> "smart_crawl_url_v2", out |-> smart_crawl_url_v2(ShopUrl, ItemName, page)]
  /\ UNCHANGED <<page, tvars, mvars, ovars, bvars, cvars, xvars>>

CheckKnown ==
  /\ pout' = [fn |-> "check_known_source", out |-> check_known_source(ShopUrl, ItemName, page)]
  /\ UNCHANGED <<page, tvars, mvars, ovars, bvars, cvars, xvars>>

PageNext == CrawlV1 \/ CrawlV2 \/ CheckKnown

SpecPage == PageInit /\ [][PageNext]_vars

(***************************************************************************)
(* The searches.  A result page is the sequence of its links; a link has   *)
(* a class and an href, and an href is given by the facts the code tests:  *)
(*   form "absolute"  the href is the target URL, which starts with http;  *)
(*   form "redirect"  an href with '//duckduckgo.com/l/?' in it;           *)
(*   form "wrapped"   an href '/url?q=<target>&...';                       *)
(*   form "relative"  any other href.                                      *)
(* A target's google field says whether 'google' occurs in the URL.        *)
(***************************************************************************)
Link(class, form, target, google) ==
  [class |-> class, form |-> form, target |-> target, google |-> google]

\* s[:n], for n >= 0
Take(s, n) == SubSeq(s, 1, IF Len(s) < n THEN Len(s) ELSE n)

\* AutoPriceCrawler.search_web_for_item: the hrefs of the a.result__a links
\* that start with http and are no redirect; the loop stops after the append
\* that brings the list to max_results.
search_web_for_item(resp, limit) ==
  LET hrefs == SelectSeq(resp.body,
                         LAMBDA l : l.class = "result__a" /\ l.form = "absolute")
      found == [k \in 1..Len(hrefs) |-> hrefs[k].target]
  IN  IF ~Fetched(resp) THEN << >>
      ELSE Take(found, IF limit < 1 THEN 1 ELSE limit)

\* The most URLs search_google_shopping returns.
ShoppingLimit == 5

\* EnhancedPriceCrawler.search_google_shopping: only a 200 is read; the
\* targets of the wrapped links that have no 'google' in them, 5 at most.
search_google_shopping(resp) ==
  LET hrefs == SelectSeq(resp.body, LAMBDA l : l.form = "wrapped" /\ ~l.google)
      found == [k \in 1..Len(hrefs) |-> hrefs[k].target]
  IN  IF resp.kind = "http" /\ resp.status = 200 THEN Take(found, ShoppingLimit)
      ELSE << >>

known_sources ==
  << << <<"g", "o", "l", "d">>,
        << Url("www.kitco.com", "/gold-price-today-usa/"),
           Url("www.bullionvault.com", "/gold-price-chart.do") >> >>,
     << <<"s", "i", "l", "v", "e", "r">>,
        << Url("www.kitco.com", "/silver-price-today-usa/"),
           Url("www.bullionvault.com", "/silver-price-chart.do") >> >>,
     << <<"b", "i", "t", "c", "o", "i", "n">>,
        << Url("www.coindesk.com", "/price/bitcoin/"),
           Url("coinmarketcap.com", "/currencies/bitcoin/") >> >>,
     << <<"c", "r", "u", "d", "e", " ", "o", "i", "l">>,
        << Url("www.investing.com", "/commodities/crude-oil"),
           Url("markets.businessinsider.com", "/commodities/oil-price") >> >> >>

\* No entry of known_sources is ever taken.
NoKnownSource(item_name, k) == 0

\* The next entry of known_sources after entry k whose name occurs in the
\* lowered item name, or 0.
NextKnown(item_name, k) ==
  LET hits == { j \in (k + 1)..Len(known_sources) :
                  Contains(Lower(item_name), known_sources[j][1]) }
  IN  IF hits = { } THEN 0 ELSE SetMin(hits)

\* search_and_crawl(item, search_terms, min_results = 3)
min_results == 3

\* The break test with > for >=.
EnoughLate(found) == Len(found) > min_results

\* if len(found_prices) >= min_results: break
EnoughV1(found) == Len(found) >= min_results

\* if len(found_prices) >= 3: break
EnoughV2(found) == Len(found) >= 3

(***************************************************************************)
(* AutoPriceCrawler and EnhancedPriceCrawler as a state machine: a batch   *)
(* of search_multiple_items, one step for each request it sends.           *)
(***************************************************************************)
\* The most links of a result page that lead to a page.
MaxLinks == 6

\* The largest max_results a crawler is constructed with.
MaxResults == 4

ResultLimits == { 1, MaxResults }

Candidate(j) == Url("shop" \o ToString(j) \o ".example", "/item")

ResultLinksV1 ==
  << Link("result__a", "redirect", Url("duckduckgo.com", "/l/"), FALSE),
     Link("nav", "absolute", Url("duckduckgo.com", "/about"), FALSE) >>
    \o [j \in 1..MaxLinks |-> Link("result__a", "absolute", Candidate(j), FALSE)]

ResultLinksV2 ==
  << Link("", "wrapped", Url("maps.google.com", "/"), TRUE),
     Link("", "relative", None, FALSE) >>
    \o [j \in 1..MaxLinks |-> Link("", "wrapped", Candidate(j), FALSE)]

SearchPagesV1 == { NetError, Http(200, << >>), Http(200, ResultLinksV1) }

SearchPagesV2 == { NetError, Http(503, << >>), Http(200, ResultLinksV2) }

CrawlPages == { NetError, Http(200, PlainDoc), Http(200, PricedDoc) }

CrawlItems == { Gold, Widget }

\* The delay, in units of self.delay, between two items.
ItemPause == IF variant = "v1" THEN 2 ELSE 3

\* The search terms sent for an item.
Terms(item_name) ==
  IF variant = "v1" THEN item_name \o <<" ", "p", "r", "i", "c", "e">>
  ELSE item_name \o <<" ", "b", "u", "y", " ", "p", "r", "i", "c", "e">>

CrawlInit ==
  /\ TextIdle
  /\ PageIdle
  /\ CompareIdle
  /\ BatchIdle
  /\ SearchIdle
  /\ variant \in {"v1", "v2"}
  /\ max_results \in ResultLimits

\* search_and_crawl is entered for the item at position i, if there is one:
\* found_prices = [], and EnhancedPriceCrawler goes to the first entry of
\* known_sources that the item name holds.
Begin(its, i) ==
  LET k == IF i <= Len(its) /\ variant = "v2" THEN NextKnown(its[i], 0) ELSE 0
  IN  /\ stage' = IF i > Len(its) THEN "none" ELSE IF k = 0 THEN "search" ELSE "known"
      /\ kidx' = k
      /\ urls' = IF k = 0 THEN << >> ELSE known_sources[k][2]
      /\ uidx' = 1
      /\ found_prices' = << >>

\* search_multiple_items(its)
CrawlStart(its) ==
  /\ variant \in {"v1", "v2"}
  /\ pc = "idle"
  /\ items' = its
  /\ idx' = 1
  /\ results' = EmptyObject
  /\ pc' = IF its = << >> THEN "done" ELSE "run"
  /\ Begin(its, 1)
  /\ UNCHANGED <<log, ovars, variant, max_results, fvars, xvars>>

\* search_and_crawl returns found: the result is stored, the pause between
\* items is taken, and the loop of search_multiple_items goes on.
EndItem(found, entries) ==
  /\ results' = Store(results, items[idx], found)
  /\ log' = log \o Stamp(entries \o Pacing(items[idx], items, ItemPause), idx)
  /\ idx' = idx + 1
  /\ pc' = IF idx = Len(items) THEN "done" ELSE "run"
  /\ Begin(items, idx + 1)
  /\ UNCHANGED items

\* The loop over the URLs goes on with the next URL.
NextUrl(found, entries) ==
  /\ found_prices' = found
  /\ uidx' = uidx + 1
  /\ log' = log \o Stamp(entries, idx)
  /\ UNCHANGED <<pc, items, idx, results, stage, kidx, urls>>

\* The URLs of a search are there: the loop over them is entered.
EnterCrawl(found_urls, entries) ==
  /\ stage' = "crawl"
  /\ urls' = found_urls
  /\ uidx' = 1
  /\ log' = log \o Stamp(entries, idx)
  /\ UNCHANGED <<pc, items, idx, results, kidx, found_prices>>

\* AutoPriceCrawler.search_and_crawl up to the loop: no URL, return [].
V1Search ==
  /\ pc = "run" /\ variant = "v1" /\ stage = "search"
  /\ \E resp \in SearchPagesV1 :
       LET found_urls == search_web_for_item(resp, max_results)
           req == Get("html.duckduckgo.com", Terms(items[idx]), resp)
       IN  IF found_urls = << >> THEN EndItem(<< >>, << req >>)
           ELSE EnterCrawl(found_urls, << req >>)
  /\ UNCHANGED <<ovars, variant, max_results, fvars, xvars>>

\* The pass with every outcome appended to found_prices, None included.
CrawlPassKeepingAll(url, resp, price_data, enough) ==
  LET found == Append(found_prices, price_data)
      req == Fetch(url, resp, price_data)
  IN  /\ price_history' =
           IF price_data # None THEN Append(price_history, price_data) ELSE price_history
      /\ IF price_data # None /\ enough THEN EndItem(found, << req >>)
         ELSE IF uidx = Len(urls) THEN EndItem(found, << req, Sleep(1) >>)
         ELSE NextUrl(found, << req, Sleep(1) >>)
      /\ UNCHANGED <<api_keys, variant, max_results, fvars, xvars>>

\* One pass of the loop over the URLs, of either variant: a record is
\* appended to found_prices and to price_history; enough of them end the
\* loop, any other pass sleeps.
CrawlPass(url, resp, price_data, enough) ==
  LET found == IF price_data # None THEN Append(found_prices, price_data)
               ELSE found_prices
      req == Fetch(url, resp, price_data)
  IN  /\ price_history' =
           IF price_data # None THEN Append(price_history, price_data) ELSE price_history
      /\ IF price_data # None /\ enough THEN EndItem(found, << req >>)
         ELSE IF uidx = Len(urls) THEN EndItem(found, << req, Sleep(1) >>)
         ELSE NextUrl(found, << req, Sleep(1) >>)
      /\ UNCHANGED <<api_keys, variant, max_results, fvars, xvars>>

V1CrawlOn(pages) ==
  /\ pc = "run" /\ variant = "v1" /\ stage = "crawl"
  /\ \E resp \in pages :
       LET price_data == smart_crawl_url_v1(urls[uidx], items[idx], resp)
       IN  CrawlPass(urls[uidx], resp, price_data,
                     EnoughV1(Append(found_prices, price_data)))

V1Crawl == V1CrawlOn(CrawlPages)

\* EnhancedPriceCrawler.search_and_crawl, one known source: after the last
\* URL of an entry, return if anything was found, else go on to the next
\* entry the item name holds, and to the search after the last.
V2KnownOn(pages) ==
  /\ pc = "run" /\ variant = "v2" /\ stage = "known"
  /\ \E resp \in pages :
       LET url == urls[uidx]
           price_data == check_known_source(url, items[idx], resp)
           found == IF price_data # None THEN Append(found_prices, price_data)
                    ELSE found_prices
           entries == << Fetch(url, resp, price_data), Sleep(1) >>
           k == NextKnown(items[idx], kidx)
       IN  /\ price_history' =
                IF price_data # None THEN Append(price_history, price_data)
                ELSE price_history
           /\ IF uidx < Len(urls) THEN NextUrl(found, entries)
              ELSE IF found # << >> THEN EndItem(found, entries)
              ELSE /\ stage' = IF k = 0 THEN "search" ELSE "known"
                   /\ kidx' = k
                   /\ urls' = IF k = 0 THEN << >> ELSE known_sources[k][2]
                   /\ uidx' = 1
                   /\ log' = log \o Stamp(entries, idx)
                   /\ UNCHANGED <<pc, items, idx, results, found_prices>>
  /\ UNCHANGED <<api_keys, variant, max_results, fvars, xvars>>

V2Known == V2KnownOn(CrawlPages)

\* The search of EnhancedPriceCrawler.search_and_crawl, and urls[:max_results].
V2Search ==
  /\ pc = "run" /\ variant = "v2" /\ stage = "search"
  /\ \E resp \in SearchPagesV2 :
       LET found_urls == Take(search_google_shopping(resp), max_results)
           req == Get("www.google.com", Terms(items[idx]), resp)
       IN  IF found_urls = << >> THEN EndItem(found_prices, << req >>)
           ELSE EnterCrawl(found_urls, << req >>)
  /\ UNCHANGED <<ovars, variant, max_results, fvars, xvars>>

V2CrawlOn(pages) ==
  /\ pc = "run" /\ variant = "v2" /\ stage = "crawl"
  /\ \E resp \in pages :
       LET price_data == smart_crawl_url_v2(urls[uidx], items[idx], resp)
       IN  CrawlPass(urls[uidx], resp, price_data,
                     EnoughV2(Append(found_prices, price_data)))

V2Crawl == V2CrawlOn(CrawlPages)

CrawlNext ==
  \/ \E its \in SeqsUpTo(CrawlItems, MaxItems) : CrawlStart(its)
  \/ V1Search
  \/ V1Crawl
  \/ V2Known
  \/ V2Search
  \/ V2Crawl

SpecCrawl == CrawlInit /\ [][CrawlNext]_vars

(***************************************************************************)
(* The same batches over longer lists of items, by a crawler that probes   *)
(* one source for an item.                                                 *)
(***************************************************************************)
\* The longest list of items of such a batch.
MaxPaceItems == 3

PaceInit == CrawlInit /\ max_results = 1

PaceNext ==
  \/ \E its \in SeqsUpTo(CrawlItems, MaxPaceItems) : CrawlStart(its)
  \/ V1Search
  \/ V1Crawl
  \/ V2Known
  \/ V2Search
  \/ V2Crawl

SpecPace == PaceInit /\ [][PaceNext]_vars

(***************************************************************************)
(* The same batches when a page may also answer with an error status, by a *)
(* crawler that probes two sources for an item.                            *)
(***************************************************************************)
\* max_results of such a crawler.
FailResults == 2

FailPages == CrawlPages \cup { Http(404, << >>) }

FailInit ==
  /\ TextIdle
  /\ PageIdle
  /\ CompareIdle
  /\ BatchIdle
  /\ SearchIdle
  /\ variant \in {"v1", "v2"}
  /\ max_results = FailResults

FailNext ==
  \/ \E its \in SeqsUpTo(CrawlItems, MaxItems) : CrawlStart(its)
  \/ V1Search
  \/ V1CrawlOn(FailPages)
  \/ V2KnownOn(FailPages)
  \/ V2Search
  \/ V2CrawlOn(FailPages)

SpecFail == FailInit /\ [][FailNext]_vars

(***************************************************************************)
(* The life of a crawler object of any of the three classes: a batch, and  *)
(* the reports and exports before and after it.                            *)
(***************************************************************************)
\* No batch is under way: the caller may use the other methods.
Resting == pc \in {"idle", "done", "raised"}

\* A method that reads the crawler object and leaves it as it is.
Export(fn, out) ==
  /\ Resting
  /\ written' = [fn |-> fn, out |-> out]
  /\ UNCHANGED <<ovars, bvars, cvars, fvars>>

SaveCsv ==
  Export("save_to_csv",
         CASE variant = "api" -> save_to_csv_api(price_history)
           [] variant = "v1" -> save_to_csv_v1(price_history)
           [] variant = "v2" -> save_to_csv_v2(price_history))

SaveJson == Export("save_to_json", save_to_json(price_history))

\* print_results(results) prints and returns nothing.
PrintResults == Export("print_results", None)

\* compare_prices(results), of AutoPriceCrawler and EnhancedPriceCrawler.
CompareResults ==
  /\ variant # "api"
  /\ Export("compare_prices",
            IF variant = "v1" THEN compare_prices_v1(results)
            ELSE compare_prices_v2(results))

\* A crawler of any class; the page crawlers probe one source for an item.
LifeInit ==
  /\ TextIdle
  /\ PageIdle
  /\ CompareIdle
  /\ BatchIdle
  /\ SearchIdle
  /\ \/ variant = "api" /\ max_results = 0
     \/ variant \in {"v1", "v2"} /\ max_results = 1

LifeNext ==
  \/ ApiNext
  \/ CrawlNext
  \/ SaveCsv
  \/ SaveJson
  \/ PrintResults
  \/ CompareResults

SpecLife == LifeInit /\ [][LifeNext]_vars

(***************************************************************************)
(* compare_prices on its own: a mapping from items to lists of records is  *)
(* chosen, and each step applies compare_prices to it.                     *)
(***************************************************************************)
\* The longest list of records of an item.
MaxRecords == 3

ComparePrices == { Price(0, 10), Price(0, 20), Price(19, 99) }

CompareRecords ==
  { PageRecord(Gold, Gold, Found(p, << >>), "$", Candidate(1)) : p \in ComparePrices }

Mappings ==
  UNION { [S -> SeqsUpTo(CompareRecords, MaxRecords)] : S \in SUBSET CrawlItems }

CompareInit ==
  /\ price_results \in Mappings
  /\ comparison = [fn |-> "none", out |-> None]
  /\ TextIdle
  /\ PageIdle
  /\ CrawlerIdle

CompareV1 ==
  /\ comparison' = [fn |-> "compare_prices_v1", out |-> compare_prices_v1(price_results)]
  /\ UNCHANGED <<price_results, tvars, dvars, ovars, bvars, cvars, xvars>>

CompareV2 ==
  /\ comparison' = [fn |-> "compare_prices_v2", out |-> compare_prices_v2(price_results)]
  /\ UNCHANGED <<price_results, tvars, dvars, ovars, bvars, cvars, xvars>>

CompareNext == CompareV1 \/ CompareV2

SpecCompare == CompareInit /\ [][CompareNext]_vars

(***************************************************************************)
(* Claims about the parsers (SpecText).                                    *)
(***************************************************************************)
\* A well-formed price: a currency symbol, then digits (comma-grouped or
\* not) with no or two decimals, and nothing else.
IsWellFormedPrice(t) ==
  /\ Len(t) >= 2
  /\ t[1] \in CurrencySymbols
  /\ IsDigit(t[2])
  /\ NumEnd(RemoveChar(Tail(t), ","), 1) = Len(RemoveChar(Tail(t), ",")) + 1

\* The value the text of a well-formed price denotes.
PriceValue(t) == ToNumber(RemoveChar(Tail(t), ","))

\* p <= 0.01 or p >= 10,000,000
OutOfRange(p) == (p.w = 0 /\ p.c <= 1) \/ p.w >= 10000000

\* C2: for every well-formed price text whose value p has p <= 0.01 or
\* p >= 10,000,000, EnhancedPriceCrawler.extract_price_from_text returns None.
C2_OutOfRangeAbstains ==
  (tout.fn = "extract_v2" /\ IsWellFormedPrice(text) /\ OutOfRange(PriceValue(text)))
    => tout.out = None

(***************************************************************************)
(* Claims about APIPriceCrawler (SpecApi).                                 *)
(***************************************************************************)
\* 0.01 < p < 10,000,000
ValidPrice(p) == p # None /\ (p.w > 0 \/ p.c > 1) /\ p.w < 10000000

\* C1: every record of price_history has a price p with 0.01 < p < 10,000,000.
C1_HistoryPricesInRange ==
  \A k \in 1..Len(price_history) : ValidPrice(price_history[k].price)

\* The item name contains a key of the table, whatever the letter case.
HasAlias(table, name) == \E k \in 1..Len(table) : Contains(Lower(name), table[k][1])

CryptoNames == { n \in ApiItems : HasAlias(crypto_map, n) }

MetalNames == { n \in ApiItems : HasAlias(metal_map, n) }

CommodityNames == { n \in ApiItems : HasAlias(commodity_map, n) }

\* The requests sent for the item at position i of the batch.
RequestsOf(i) == { k \in 1..Len(log) : log[k].op = "GET" /\ log[k].item = i }

\* The pass of the loop for the item at position i is over.
Passed(i) == i < idx \/ (i = idx /\ pc = "raised")

MetalHosts == { "api.metalpriceapi.com", "www.goldapi.io" }

\* The hosts search_item may ask for a name: those of the first table, in the
\* order crypto, metal, commodity, that has a key in the name.
HostsFor(name) ==
  IF name \in CryptoNames THEN { "api.coingecko.com" }
  ELSE IF name \in MetalNames THEN MetalHosts
  ELSE IF name \in CommodityNames THEN { "www.alphavantage.co" }
  ELSE { }

\* C5: search_item consults the crypto table, then the metal table, then the
\* commodity table, and the first table with a match wins: an item whose name
\* holds a crypto alias is sent to the crypto adapter (one request to the
\* quote service) and to no other, also when it holds a metal name.
C5_CryptoTableFirst ==
  \A i \in 1..Len(items) :
    /\ \A k \in RequestsOf(i) : log[k].host \in HostsFor(items[i])
    /\ (Passed(i) /\ items[i] \in CryptoNames)
         => \E k \in RequestsOf(i) : log[k].host = "api.coingecko.com"

C5_Witness ==
  /\ Passed(1)
  /\ items[1] \in CryptoNames \cap MetalNames
  /\ \E k \in RequestsOf(1) : log[k].host = "api.coingecko.com"

\* C6: a batch run never raises to its caller.
C6_BatchNeverRaises == pc # "raised"

\* The primary metal endpoint answered, and not with the rate asked for: a
\* status other than 200, or a 200 whose object lacks 'rates' or the code.
PrimaryFailed(e) ==
  /\ e.resp.kind = "http"
  /\ \/ e.resp.status # 200
     \/ /\ e.resp.body # BadJson
        /\ ~("rates" \in DOMAIN e.resp.body /\ e.arg \in DOMAIN e.resp.body["rates"])

\* C9: whenever the primary metal endpoint fails in either way, the next
\* request is the alternative endpoint's, for the same metal.
C9_FallbackInBothCases ==
  \A k \in 1..Len(log) :
    (log[k].op = "GET" /\ log[k].host = "api.metalpriceapi.com" /\ PrimaryFailed(log[k]))
      => /\ k < Len(log)
         /\ log[k + 1].host = "www.goldapi.io"
         /\ log[k + 1].arg = log[k].arg

\* The name resolves to the commodity table: no crypto alias, no metal name.
IsCommodityName(name) == name \in CommodityNames \ (CryptoNames \cup MetalNames)

\* C10: without an 'alphavantage' key, a commodity item sends no request, adds
\* nothing to price_history, gets the result None, and the batch goes on.
C10_NoKeyAbstains ==
  "alphavantage" \notin api_keys =>
    \A i \in 1..Len(items) :
      IsCommodityName(items[i]) =>
        /\ RequestsOf(i) = { }
        /\ \A k \in 1..Len(price_history) : price_history[k].item_name # items[i]
        /\ ~(pc = "raised" /\ idx = i)
        /\ i < idx => results[items[i]] = None

C10_Witness ==
  /\ "alphavantage" \notin api_keys
  /\ Len(items) = 2
  /\ IsCommodityName(items[1])
  /\ pc = "done"
  /\ results[items[1]] = None
  /\ results[items[2]] # None

(***************************************************************************)
(* Claims about the page crawlers (SpecPage).                              *)
(***************************************************************************)
\* A price text: an optional currency symbol, digits, no or two decimals.
IsPriceText(t) ==
  LET n == IF t # << >> /\ t[1] \in CurrencySymbols THEN Tail(t) ELSE t
  IN  n # << >> /\ IsDigit(n[1]) /\ NumEnd(n, 1) = Len(n) + 1

PriceTextValue(t) == ToNumber(IF t[1] \in CurrencySymbols THEN Tail(t) ELSE t)

\* The metadata price tags of a document with a valid price.
ValidMetaTags(doc) ==
  { k \in 1..Len(doc) :
      /\ doc[k].tag = "meta"
      /\ HasValue(doc[k], "property")
      /\ doc[k].attrs["property"] = WProductPriceAmount
      /\ HasValue(doc[k], "content")
      /\ IsPriceText(doc[k].attrs["content"])
      /\ InRange(PriceTextValue(doc[k].attrs["content"]), SelectorRange) }

\* The elements of class price of a document with a valid price as text.
ValidPriceElements(doc) ==
  { k \in 1..Len(doc) :
      /\ HasValue(doc[k], "class")
      /\ HasWord(doc[k].attrs["class"], WPrice)
      /\ IsPriceText(Strip(doc[k].text))
      /\ InRange(PriceTextValue(Strip(doc[k].text)), SelectorRange) }

\* C4: for a document with a valid metadata price tag and an element the
\* CSS selectors match with a different valid price, smart_crawl_url (either
\* variant) returns a record whose price is the metadata value.
C4_MetadataBeatsSelectors ==
  (/\ pout.fn \in {"smart_crawl_url_v1", "smart_crawl_url_v2"}
   /\ Fetched(page)
   /\ ValidMetaTags(page.body) # { }
   /\ ValidPriceElements(page.body) # { })
    => LET meta == page.body[SetMin(ValidMetaTags(page.body))]
           elem == page.body[SetMin(ValidPriceElements(page.body))]
       IN  PriceTextValue(meta.attrs["content"]) # PriceTextValue(Strip(elem.text))
             => /\ pout.out # None
                /\ pout.out.price = PriceTextValue(meta.attrs["content"])

(***************************************************************************)
(* Claims about the batches of AutoPriceCrawler and EnhancedPriceCrawler   *)
(* (SpecCrawl).                                                            *)
(***************************************************************************)
\* The page fetches for the item at position i, and those that gave a record.
PageFetches(i) ==
  { k \in RequestsOf(i) : log[k].host \notin {"html.duckduckgo.com", "www.google.com"} }

Successes(i) == { k \in PageFetches(i) : log[k].got # None }

\* The per-item cap on successful records.
Cap == 3

\* C3: for every item, search_and_crawl gives at most 3 records, and once
\* the third is there no further candidate URL is fetched for that item.
C3_CapAndEarlyExit ==
  /\ Len(found_prices) <= Cap
  /\ \A name \in DOMAIN results : Len(results[name]) <= Cap
  /\ \A i \in 1..Len(items) :
       /\ Cardinality(Successes(i)) <= Cap
       /\ Cardinality(Successes(i)) = Cap
            => \A k \in PageFetches(i) : \E j \in Successes(i) : k <= j

C3_Witness ==
  /\ pc = "done"
  /\ items # << >>
  /\ Cardinality(Successes(1)) = Cap
  /\ Cardinality(PageFetches(1)) = Cap
  /\ \E k \in RequestsOf(1) :
       /\ log[k].host \in {"html.duckduckgo.com", "www.google.com"}
       /\ log[k].resp \in {Http(200, ResultLinksV1), Http(200, ResultLinksV2)}
  /\ max_results > Cap
  /\ Len(results[items[1]]) = Cap

(***************************************************************************)
(* Claims about compare_prices (SpecCompare).                              *)
(***************************************************************************)
Compared == comparison.fn # "none"

\* The items of the input mapping that have at least one record.
ItemsWithRecords == { k \in DOMAIN price_results : Len(price_results[k]) >= 1 }

\* C7: the keys of the mapping compare_prices returns are exactly the items
\* of its input that have at least one record; an item with an empty list
\* has no entry of any kind.
C7_KeysAreItemsWithRecords ==
  Compared => DOMAIN comparison.out = ItemsWithRecords

C7_Witness ==
  /\ Compared
  /\ \E k \in DOMAIN price_results : price_results[k] = << >>
  /\ \E k \in DOMAIN price_results : k \in DOMAIN comparison.out

\* The prices of the records of an item of the input.
PricesOf(item) == [k \in 1..Len(price_results[item]) |-> price_results[item][k].price]

\* x <= y on doubles.
DLessEq(x, y) == ~DLess(y, x)

\* C8: for every item with at least one record, lowest is the least and
\* highest the greatest of the prices of its records, the average lies
\* between them (lowest <= average <= highest), and the prices list has one
\* entry for each record, in the same order.
C8_StatisticsOfThePrices ==
  Compared =>
    \A item \in ItemsWithRecords :
      /\ item \in DOMAIN comparison.out
      /\ LET entry == comparison.out[item]
             ps == PricesOf(item)
         IN  /\ \E k \in 1..Len(ps) : entry.lowest = ps[k]
             /\ \A k \in 1..Len(ps) : ~NumLess(ps[k], entry.lowest)
             /\ \E k \in 1..Len(ps) : entry.highest = ps[k]
             /\ \A k \in 1..Len(ps) : ~NumLess(entry.highest, ps[k])
             /\ DLessEq(ToDouble(entry.lowest), entry.average)
             /\ DLessEq(entry.average, ToDouble(entry.highest))
             /\ Len(entry.prices) = Len(ps)
             /\ \A k \in 1..Len(ps) : entry.prices[k].price = ps[k]

(***************************************************************************)
(* The exports and the history.                                            *)
(***************************************************************************)
\* The file has the sorted union of the keys as its header and a row for
\* each record, with an empty cell for each field the record lacks.
CsvOfAllKeys(file, history) ==
  /\ file # None
  /\ ~file.raised
  /\ file.header = Sorted(AllKeys(history))
  /\ Len(file.rows) = Len(history)
  /\ \A i \in 1..Len(history) :
       /\ DOMAIN file.rows[i] = AllKeys(history)
       /\ \A f \in AllKeys(history) :
            file.rows[i][f] = IF f \in DOMAIN history[i] THEN history[i][f] ELSE EmptyCell

\* C11: for every non-empty price history, save_to_csv writes a header row
\* equal to the lexicographically sorted union of the keys of all records and
\* an empty cell for each field a record lacks, and never fails or drops a
\* column.
C11_CsvHeaderIsSortedUnion ==
  [][(written' # written /\ written'.fn = "save_to_csv" /\ price_history # << >>)
       => CsvOfAllKeys(written'.out, price_history)]_vars

(***************************************************************************)
(* The quote of 'Bitcoin'.                                                 *)
(***************************************************************************)
\* The response that the pass at work got to its request.
QuoteResponse == log'[Len(log) + 1].resp

\* A pass of the batch on the item 'Bitcoin' that sent its request.
BitcoinPass == pc = "run" /\ items[idx] = Bitcoin /\ Len(log') > Len(log)

\* The response maps 'bitcoin' to {usd: P, usd_24h_change: C}, two numbers.
FullQuote(resp) ==
  /\ resp.kind = "http"
  /\ resp.status = 200
  /\ HasKey(resp.body, "bitcoin")
  /\ DOMAIN resp.body["bitcoin"] = { "usd", "usd_24h_change" }
  /\ resp.body["bitcoin"]["usd"] # None
  /\ resp.body["bitcoin"]["usd_24h_change"] # None

\* The response is a mapping without the id, or without 'usd' under the id.
LacksQuote(resp) ==
  /\ resp.kind = "http"
  /\ resp.status = 200
  /\ resp.body # BadJson
  /\ ("bitcoin" \in DOMAIN resp.body => "usd" \notin DOMAIN resp.body["bitcoin"])

\* h is the hundredths nearest to the ten-thousandths t.
NearestHundredth(h, t) == 100 * h - t <= 50 /\ t - 100 * h <= 50

QuoteRecord(rec, quote) ==
  /\ rec # None
  /\ rec.item_name = Bitcoin
  /\ rec.price = quote["usd"]
  /\ rec.currency = "$"
  /\ NearestHundredth(rec.change_24h.e2, quote["usd_24h_change"].e4)
  /\ rec.source = "CoinGecko API"

\* C12: for the item 'Bitcoin' and a response mapping 'bitcoin' to
\* {usd: P, usd_24h_change: C}, the pass yields one record with price P,
\* currency '$', change_24h = C rounded to 2 decimals and source
\* 'CoinGecko API', and appends exactly that record to price_history; when
\* the response lacks the id or the 'usd' key the adapter abstains and
\* nothing is appended.
C12_BitcoinQuote ==
  [][BitcoinPass =>
       /\ FullQuote(QuoteResponse) =>
            /\ pc' # "raised"
            /\ QuoteRecord(results'[Bitcoin], QuoteResponse.body["bitcoin"])
            /\ price_history' = Append(price_history, results'[Bitcoin])
       /\ LacksQuote(QuoteResponse) =>
            /\ pc' # "raised"
            /\ results'[Bitcoin] = None
            /\ price_history' = price_history]_vars

\* A batch of two 'Bitcoin' is over: the first got a quote with a change of
\* -1.2346 and left the one record of the history, with -1.23; the second
\* got a quote without 'usd' and left nothing.
C12_Witness ==
  /\ variant = "api"
  /\ pc = "done"
  /\ items = << Bitcoin, Bitcoin >>
  /\ Len(log) = 2
  /\ FullQuote(log[1].resp)
  /\ log[1].resp.body["bitcoin"]["usd_24h_change"] = [e4 |-> -12346]
  /\ LacksQuote(log[2].resp)
  /\ Len(price_history) = 1
  /\ price_history[1].price = Price(65000, 12)
  /\ price_history[1].change_24h = [e2 |-> -123]
  /\ results[Bitcoin] = None

(***************************************************************************)
(* Currency-prefixed prices (SpecText).                                    *)
(***************************************************************************)
\* A comma-grouped integer: digits with a comma before each group of three
\* from the right, and no leading zero but in "0".
GroupedInt(s) ==
  /\ s # << >>
  /\ \A i \in 1..Len(s) :
       IF (Len(s) - i + 1) % 4 = 0 THEN s[i] = "," ELSE IsDigit(s[i])
  /\ (s[1] # "0" \/ Len(s) = 1)

\* A currency symbol, a comma-grouped integer, a point and two decimals.
GroupedPrice(t) ==
  /\ Len(t) >= 5
  /\ t[1] \in CurrencySymbols
  /\ GroupedInt(SubSeq(t, 2, Len(t) - 3))
  /\ t[Len(t) - 2] = "."
  /\ IsDigit(t[Len(t) - 1])
  /\ IsDigit(t[Len(t)])

\* The value such a text denotes.
GroupedValue(t) ==
  [w |-> DigitsValue(SelectSeq(SubSeq(t, 2, Len(t) - 3), IsDigit)),
   c |-> DigitsValue(SubSeq(t, Len(t) - 1, Len(t)))]

\* C13: for every text made of a currency symbol, a comma-grouped integer
\* part and two decimals (like '$1,234.56') whose value lies in the accepted
\* range, extract_price_from_text of either crawler returns exactly that
\* value and detect_currency of either crawler returns the prefixed symbol.
C13_PrefixedPriceIsRead ==
  (GroupedPrice(text) /\ ValidPrice(GroupedValue(text))) =>
    /\ tout.fn \in {"extract_v1", "extract_v2"} => tout.out = GroupedValue(text)
    /\ tout.fn \in {"detect_v1", "detect_v2"} => tout.out = text[1]

\* '$1,234.56' was read by the parser of EnhancedPriceCrawler as 1234.56.
C13_Witness ==
  /\ text = <<"$", "1", ",", "2", "3", "4", ".", "5", "6">>
  /\ GroupedPrice(text)
  /\ ValidPrice(GroupedValue(text))
  /\ tout = [fn |-> "extract_v2", out |-> Price(1234, 56)]

(***************************************************************************)
(* The history over the life of a crawler (SpecLife).                      *)
(***************************************************************************)
IsPrefix(a, b) == Len(a) <= Len(b) /\ SubSeq(b, 1, Len(a)) = a

\* C14: price_history is append-only across any sequence of operations
\* (search_multiple_items, search_and_crawl, compare_prices, print_results,
\* save_to_json, save_to_csv): every step leaves the previous history as a
\* prefix of the new one, so that no record is updated, reordered or deleted.
C14_HistoryIsAppendOnly == [][IsPrefix(price_history, price_history')]_vars

\* A batch has appended two records, one after the other, and the history
\* was then handed to an export or a comparison.
C14_Witness ==
  /\ pc = "done"
  /\ Len(price_history) = 2
  /\ price_history[1] # price_history[2]
  /\ written.fn \in {"save_to_csv", "save_to_json", "print_results", "compare_prices"}

(***************************************************************************)
(* The pacing of the page fetches (SpecPace).                              *)
(***************************************************************************)
\* The page fetches of the batch, in the order of the log.
AllPageFetches == UNION { PageFetches(i) : i \in 1..Len(items) }

\* The page fetch at b is the next one after the page fetch at a.
NextFetch(a, b) ==
  /\ a \in AllPageFetches
  /\ b \in AllPageFetches
  /\ a < b
  /\ \A k \in AllPageFetches : ~(a < k /\ k < b)

\* The time slept between the entries a and b of the log, in units of delay.
RECURSIVE Slept(_, _)
Slept(a, b) ==
  IF a + 1 >= b THEN 0
  ELSE (IF log[a + 1].op = "sleep" THEN log[a + 1].arg ELSE 0) + Slept(a + 1, b)

\* C15: in a batch, at least delay passes between two successive page
\* fetches of one item, and at least 2 x delay (AutoPriceCrawler) or
\* 3 x delay (EnhancedPriceCrawler) between the last fetch of an item and the
\* first fetch of the item that follows it in the list; no two page fetches
\* are back to back.  The pause between items is asked only of two
\* different items.
C15_FetchesArePaced ==
  \A a, b \in 1..Len(log) :
    NextFetch(a, b) =>
      /\ Slept(a, b) >= 1
      /\ (log[b].item = log[a].item + 1 /\ items[log[a].item] # items[log[b].item])
           => Slept(a, b) >= ItemPause

(***************************************************************************)
(* The sources probed for an item (SpecCrawl).                             *)
(***************************************************************************)
\* C16: for every item, search_and_crawl fetches at most max_results
\* candidate URLs, whether the known sources or the search supplied them.
C16_AtMostMaxResultsFetches ==
  \A i \in 1..Len(items) : Cardinality(PageFetches(i)) <= max_results

(***************************************************************************)
(* The order of the patterns (SpecText).                                   *)
(***************************************************************************)
\* The number the pattern at position k of the list captures in the text.
Captured(k) == ToNumber(Group1(CleanV2(text), PatternsV2(CleanV2(text))[k]))

\* The pattern at position k matches and its number is in range.
Passes(k) == PatternsV2(CleanV2(text))[k] # NoMatch /\ PriceInRange(Captured(k))

PatternCount == Len(PatternsV2(CleanV2(text)))

\* C17: extract_price_from_text of EnhancedPriceCrawler returns the number
\* captured by the first pattern, in list order, that matches and whose
\* number is in range: an earlier pattern with a number out of range does
\* not end the search, the place of a match in the text plays no part, and
\* None is returned when no pattern passes.
C17_FirstPassingPatternWins ==
  tout.fn = "extract_v2" =>
    /\ (\A k \in 1..PatternCount : ~Passes(k)) => tout.out = None
    /\ \A k \in 1..PatternCount :
         (Passes(k) /\ \A j \in 1..(k - 1) : ~Passes(j)) => tout.out = Captured(k)

\* '$10000000 or 5 USD' was read as 5: the first pattern matched 10000000,
\* out of range, the fourth gave 5, and the sixth, lower in the list, had a
\* match in range that starts earlier in the text.
C17_Witness ==
  /\ tout.fn = "extract_v2"
  /\ text \in TwoPriceTexts
  /\ PatternsV2(CleanV2(text))[1] # NoMatch
  /\ ~PriceInRange(Captured(1))
  /\ Passes(4)
  /\ Passes(6)
  /\ PatternsV2(CleanV2(text))[6][1] < PatternsV2(CleanV2(text))[4][1]
  /\ Captured(6) # Captured(4)
  /\ tout.out = Price(5, 0)

(***************************************************************************)
(* The strategies of EnhancedPriceCrawler.smart_crawl_url (SpecPage).      *)
(***************************************************************************)
\* smart_crawl_url of EnhancedPriceCrawler was applied to a page it got.
CrawledV2 == pout.fn = "smart_crawl_url_v2" /\ Fetched(page)

\* What each strategy finds in the page on its own.
ByMeta == MetaPriceV2(page.body)

BySelectors == SelectorPriceV2(page.body)

ByFullText == FullTextPriceV2(page.body)

Abstains(found) == ~Truthy(found.price)

\* C18: smart_crawl_url of EnhancedPriceCrawler runs its three strategies as
\* a cascade: the selectors supply the price only if the metadata abstained,
\* the full text only if the metadata and the selectors both abstained, and
\* the result is None exactly when all three abstain.
C18_ThreeStrategyCascade ==
  CrawledV2 =>
    /\ pout.out = None <=> (Abstains(ByMeta) /\ Abstains(BySelectors) /\ Abstains(ByFullText))
    /\ ~Abstains(ByMeta) => pout.out.price = ByMeta.price
    /\ (Abstains(ByMeta) /\ ~Abstains(BySelectors)) => pout.out.price = BySelectors.price
    /\ (Abstains(ByMeta) /\ Abstains(BySelectors) /\ ~Abstains(ByFullText))
         => pout.out.price = ByFullText.price

\* The metadata and the selectors abstained on a page, and the full text
\* supplied the price of the record.
C18_Witness ==
  /\ CrawledV2
  /\ Abstains(ByMeta)
  /\ Abstains(BySelectors)
  /\ ~Abstains(ByFullText)
  /\ pout.out # None
  /\ pout.out.price = Price(5, 0)

(***************************************************************************)
(* The selector strategy of EnhancedPriceCrawler (SpecPage).               *)
(***************************************************************************)
\* The price an element yields: that of its data-price attribute if it has
\* one that parses, else that of its stripped text if it parses, else None.
ElementValue(node) ==
  IF HasValue(node, "data-price")
       /\ Truthy(extract_price_from_text_v2(node.attrs["data-price"]))
  THEN extract_price_from_text_v2(node.attrs["data-price"])
  ELSE IF Strip(node.text) # << >> /\ Truthy(extract_price_from_text_v2(Strip(node.text)))
  THEN extract_price_from_text_v2(Strip(node.text))
  ELSE None

\* The pairs of a selector (its place in the list) and an element of the
\* page (its place in the document) that the selector matches and that
\* yields a price.
Yielding ==
  { pr \in (1..Len(price_selectors_v2)) \X (1..Len(page.body)) :
      /\ Matches(price_selectors_v2[pr[1]], page.body[pr[2]])
      /\ ElementValue(page.body[pr[2]]) # None }

\* The selector comes first, then the place in the document.
Before(p, q) == p[1] < q[1] \/ (p[1] = q[1] /\ p[2] <= q[2])

FirstYielding == CHOOSE p \in Yielding : \A q \in Yielding : Before(p, q)

\* C19: in the selector strategy of EnhancedPriceCrawler.smart_crawl_url the
\* price is that of the first element, in the order of the selector list and
\* then of the document, that yields a valid extraction, its data-price
\* attribute tried before its text; no element of a later selector or of a
\* later place in the document is used once one yields a price.
C19_FirstSelectorElementWins ==
  (CrawledV2 /\ Abstains(ByMeta) /\ Yielding # { }) =>
    /\ pout.out # None
    /\ pout.out.price = ElementValue(page.body[FirstYielding[2]])

\* The page has an element with id price and '$40.00' and, after it, an
\* element of class price with data-price '$30.00' and the text '$20.00': the
\* price is 30.00, that of the attribute of the element of the earlier selector.
C19_Witness ==
  /\ CrawledV2
  /\ Abstains(ByMeta)
  /\ \E p, q \in Yielding :
       /\ p[1] < q[1]
       /\ q[2] < p[2]
       /\ p = FirstYielding
       /\ HasValue(page.body[p[2]], "data-price")
       /\ ElementValue(page.body[q[2]]) = Price(40, 0)
       /\ extract_price_from_text_v2(Strip(page.body[p[2]].text)) = Price(20, 0)
  /\ pout.out.price = Price(30, 0)

(***************************************************************************)
(* The full-text fallback of EnhancedPriceCrawler (SpecPage).              *)
(***************************************************************************)
\* The longest line the fallback reads is one character shorter.
MaxLineLength == 200

HasCurrencySymbol(line) == \E k \in 1..Len(line) : line[k] \in CurrencySymbols

\* A stripped, non-empty line of the page text that is short enough and has
\* a currency symbol or the word price in any letter case.
IsCandidateLine(line) ==
  /\ Len(line) < MaxLineLength
  /\ (HasCurrencySymbol(line) \/ Contains(Lower(line), WPrice))

\* The candidate lines of the page, by their place, whose text parses to a
\* price in the range of the fallback.
ValidCandidates ==
  { k \in 1..Len(PageLines(page.body)) :
      /\ IsCandidateLine(PageLines(page.body)[k])
      /\ Truthy(extract_price_from_text_v2(PageLines(page.body)[k]))
      /\ InRange(extract_price_from_text_v2(PageLines(page.body)[k]), FullTextRange) }

\* C20: in the full-text fallback of EnhancedPriceCrawler.smart_crawl_url
\* every line shorter than the maximum length that holds a currency symbol
\* ($, pound, euro, yen) or 'price' in any letter case is a candidate, and
\* the first candidate in document order with a valid extraction supplies
\* the price; a line such as the pound sign and 20.00 is a candidate.
C20_SymbolOrPriceLinesAreCandidates ==
  (CrawledV2 /\ Abstains(ByMeta) /\ Abstains(BySelectors) /\ ValidCandidates # { }) =>
    /\ pout.out # None
    /\ pout.out.price =
         extract_price_from_text_v2(PageLines(page.body)[SetMin(ValidCandidates)])

(***************************************************************************)
(* The title of a record (SpecPage).                                       *)
(***************************************************************************)
\* The most characters of a title taken from the page.
TitleLimit == 100

Headings == { k \in 1..Len(page.body) : page.body[k].tag = "h1" }

TitleElements == { k \in 1..Len(page.body) : page.body[k].tag = "title" }

\* The text of the first h1 of the page, else of its title element.
TitleSource ==
  IF Headings # { } THEN Strip(page.body[SetMin(Headings)].text)
  ELSE Strip(page.body[SetMin(TitleElements)].text)

\* C21: the title of every record made from a page is the text of the first
\* h1 of the document if there is one, else the text of its title element,
\* else the item name; a title taken from the page has at most 100
\* characters (the first 100 of the text).
C21_TitleFromHeading ==
  pout.out # None =>
    IF Headings \cup TitleElements = { } THEN pout.out.title = ItemName
    ELSE /\ Len(pout.out.title) <= TitleLimit
         /\ Len(pout.out.title) = Len(TitleSource) \/ Len(pout.out.title) = TitleLimit
         /\ \A k \in 1..Len(pout.out.title) : pout.out.title[k] = TitleSource[k]

(***************************************************************************)
(* The currency of a fragment (SpecText).                                  *)
(***************************************************************************)
\* The priority list of the currencies: what is looked for, and the symbol
\* shown for it.
CurrencyPriority ==
  << << <<"$">>, "$" >>, << <<Pound>>, Pound >>, << <<Euro>>, Euro >>, << <<Yen>>, Yen >>,
     << <<"U", "S", "D">>, "$" >>, << <<"G", "B", "P">>, Pound >>,
     << <<"E", "U", "R">>, Euro >>, << <<"J", "P", "Y">>, Yen >> >>

\* The entries of the list that occur in the text.
Occurring == { k \in 1..Len(CurrencyPriority) : Contains(text, CurrencyPriority[k][1]) }

Detected == tout.fn \in {"detect_v1", "detect_v2"}

\* C22: detect_currency returns the symbol of the first entry of the list
\* $, pound, euro, yen, USD, GBP, EUR, JPY that occurs in the fragment, and
\* '$' when none occurs; the result is always one of the four symbols, and a
\* symbol in the fragment wins over a code in it.
C22_FirstCurrencyOfTheList ==
  Detected =>
    /\ tout.out \in CurrencySymbols
    /\ tout.out = IF Occurring = { } THEN "$" ELSE CurrencyPriority[SetMin(Occurring)][2]

(***************************************************************************)
(* The known sources of EnhancedPriceCrawler (SpecCrawl).                  *)
(***************************************************************************)
\* The entries of known_sources whose commodity name the item name holds.
KnownEntries(name) ==
  { j \in 1..Len(known_sources) : Contains(Lower(name), known_sources[j][1]) }

\* The open searches sent for the item at position i.
OpenSearches(i) == { k \in RequestsOf(i) : log[k].host = "www.google.com" }

\* The URL was fetched for the item at position i before the entry k of the log.
FetchedBefore(i, url, k) ==
  \E f \in PageFetches(i) :
    f < k /\ log[f].host = url.netloc /\ log[f].arg = url.path

\* C23: in EnhancedPriceCrawler.search_and_crawl, for an item whose name
\* holds a commodity name of known_sources the known URLs are fetched before
\* any open search, and the open search is sent only if none of them gave a
\* record, and then it is sent; an item that holds no such name starts with
\* the open search.
C23_KnownSourcesFirst ==
  variant = "v2" =>
    \A i \in 1..Len(items) :
      /\ \A k \in OpenSearches(i) :
           /\ \A j \in KnownEntries(items[i]) :
                \A u \in 1..Len(known_sources[j][2]) :
                  FetchedBefore(i, known_sources[j][2][u], k)
           /\ \A f \in PageFetches(i) : f < k => log[f].got = None
      /\ (KnownEntries(items[i]) # { } /\ Passed(i) /\ Successes(i) = { })
           => OpenSearches(i) # { }
      /\ (KnownEntries(items[i]) = { } /\ RequestsOf(i) # { })
           => SetMin(RequestsOf(i)) \in OpenSearches(i)

\* A batch of 'Gold' and 'Widget' is over: for 'Gold' the two known sources
\* were fetched and gave nothing, and the open search followed them; the
\* first request for 'Widget' was the open search.
C23_Witness ==
  /\ variant = "v2"
  /\ pc = "done"
  /\ items = << Gold, Widget >>
  /\ KnownEntries(Gold) # { }
  /\ KnownEntries(Widget) = { }
  /\ Cardinality(OpenSearches(1)) = 1
  /\ \E k \in OpenSearches(1) : Cardinality({ f \in PageFetches(1) : f < k }) = 2
  /\ OpenSearches(2) # { }
  /\ SetMin(RequestsOf(2)) \in OpenSearches(2)

(***************************************************************************)
(* A candidate URL that gives nothing (SpecFail).                          *)
(***************************************************************************)
\* The step fetches the candidate URL at work; Probe is the entry of the
\* log it makes.
FetchStep == pc = "run" /\ stage \in {"known", "crawl"} /\ Len(log') > Len(log)

Probe == log'[Len(log) + 1]

\* A timeout or a connection error, or a status that raise_for_status rejects.
FailedFetch(resp) == resp.kind = "error" \/ resp.status >= 400

\* No URL is fetched twice for one item.
NoRefetch ==
  \A i \in 1..Len(items) :
    \A f, g \in PageFetches(i) :
      (log[f].host = log[g].host /\ log[f].arg = log[g].arg) => f = g

RecordsUnder(name) ==
  IF name \notin DOMAIN results THEN << >>
  ELSE IF variant = "api"
  THEN (IF results[name] = None THEN << >> ELSE << results[name] >>)
  ELSE results[name]

RECURSIVE CountUnder(_)
CountUnder(names) ==
  IF names = { } THEN 0
  ELSE LET n == CHOOSE x \in names : TRUE
       IN  Len(RecordsUnder(n)) + CountUnder(names \ { n })

\* C25: when search_multiple_items has returned on a new crawler, the
\* records of the returned mapping are exactly those of price_history: each
\* record of the history is in the mapping under its item name, and the
\* mapping holds as many records as the history, also when a name occurs
\* more than once in the list of items.
C25_MappingHoldsTheHistory ==
  pc = "done" =>
    /\ \A k \in 1..Len(price_history) :
         \E j \in 1..Len(RecordsUnder(price_history[k].item_name)) :
           RecordsUnder(price_history[k].item_name)[j] = price_history[k]
    /\ CountUnder(DOMAIN results) = Len(price_history)

(***************************************************************************)
(* The series of a commodity (SpecApi).                                    *)
(***************************************************************************)
\* The requests to the series service, by their place in the log.
SeriesRequests == { k \in 1..Len(log) : log[k].op = "GET" /\ log[k].host = "www.alphavantage.co" }

\* C26: fetch_commodity_price requests the series of the commodity code the
\* item was resolved to (WTI, BRENT or NG): the 'function' parameter of the
\* request names that code, so that an item resolved to NG is never priced
\* from the BRENT or the WTI series.
C26_SeriesOfTheResolvedCode ==
  \A k \in SeriesRequests : log[k].arg = ClassOf[items[log[k].item]].code

(***************************************************************************)
(* The alias 'brent' (SpecApi).                                            *)
(***************************************************************************)
\* The item name holds 'brent', in any letter case, and no alias of a
\* cryptocurrency or of a metal.
IsBrentName(name) ==
  /\ Contains(Lower(name), <<"b", "r", "e", "n", "t">>)
  /\ ~HasAlias(crypto_map, name)
  /\ ~HasAlias(metal_map, name)

\* C27: search_item resolves every item name that holds the alias 'brent'
\* (and no crypto or metal alias) to the commodity code BRENT, also when the
\* name holds 'oil' or 'crude oil' as well, and never to WTI: the pass of
\* such an item asks the series service for BRENT and for nothing else.
C27_BrentResolvesToBrent ==
  \A i \in 1..Len(items) :
    IsBrentName(items[i]) =>
      /\ search_item(items[i], api_keys, NetError, NetError).reqs # << >>
           => search_item(items[i], api_keys, NetError, NetError).reqs[1].arg = "BRENT"
      /\ \A k \in RequestsOf(i) : log[k].arg = "BRENT"

====
